---- MODULE Spec2Model ----
(***************************************************************************)
(* Model of the corpus-speech text-to-speech service: the TextToSpeech     *)
(* facade of corpus_speech.py (two engine handles, one mutable             *)
(* configuration tree) and the request handlers of app_swagger.py that     *)
(* drive it.                                                               *)
(*                                                                         *)
(* Conventions                                                             *)
(*   - Python None is "None" for strings and NoneNum for numbers.          *)
(*   - volume and speed are kept in tenths (0.9 is 9, 1.5 is 15).          *)
(*   - an engine handle is either None or an object: hume_client is a      *)
(*     BOOLEAN (client object present), pyttsx3_engine a record whose      *)
(*     field present says whether the attribute holds an engine, and       *)
(*     whose other fields are that engine's properties.                    *)
(*   - calls into pyttsx3 and pygame may raise; which call raises is an    *)
(*     input of the action (fault, mixerOK).                               *)
(***************************************************************************)
EXTENDS Integers, Sequences, FiniteSets, TLC

VARIABLES
    tts,             \* the module-level name tts of the app: "unset" before
                     \* start-up, "TextToSpeech" (an object) or "None"
    config,          \* TextToSpeech.config
    environ,         \* os.environ['HUME_API_KEY']
    hume_client,     \* TextToSpeech.hume_client is not None
    pyttsx3_engine,  \* TextToSpeech.pyttsx3_engine and the engine's properties
    voice_cache,     \* the file .voice_cache.json
    last,            \* the last request: its inputs, what it called, its response
    threads,         \* the requests being served step by step: where each
                     \* one stands in its handler, and its local variables
    music            \* pygame.mixer.music: the buffer loaded, whether it plays

vars == <<tts, config, environ, hume_client, pyttsx3_engine, voice_cache, last,
          threads, music>>

----------------------------------------------------------------------------
(* Values *)

None == "None"
NoneNum == 0 - 1
\* Strings whose characters matter (voice ids, voice names) are sequences
\* of one-character strings; NoneSeq is Python None where such a string is
\* expected.
NoneSeq == <<None>>

\* number of distinct rate / volume request values explored
NumRates == 1
NumVolumes == 1

DefaultRate == 200
DefaultVolume == 9
DefaultSpeed == 10
BaseRate == 200

s_ito == <<"i", "t", "o">>
s_dacher == <<"d", "a", "c", "h", "e", "r">>
s_us == <<"u", "s">>
s_en == <<"e", "n">>
s_en_us == <<"e", "n", "-", "u", "s">>

\* rate and volume values a /config request may carry (config_model enums)
RateArgs == {NoneNum} \cup {150 + 100 * i : i \in 0..(NumRates - 1)}
VolumeArgs == {NoneNum} \cup {5 - i : i \in 0..(NumVolumes - 1)}
\* speed multipliers a /speed request may carry, in tenths: none, 1.0, and
\* 3.0, which is not among the choices
SpeedArgs == {NoneNum, DefaultSpeed, 30}
SPEED_CHOICES == {5, 7, 8, 9, 10, 11, 12, 13, 15, 17, 20}
VoiceIdArgs == {NoneSeq, s_us}
DescriptionArgs == {None, "Warm, conversational tone"}
EMOTION_CHOICES == {"calm"}
ENGINE_CHOICES == {"hume", "pyttsx3"}

\* the engine names a configuration file may hold; "espeak" stands for any
\* value that is neither 'hume' nor 'pyttsx3'
ConfigEngines == {"hume", "pyttsx3", "espeak"}
\* a credential is absent (None), empty or a key; the pairs are
\* <<os.environ['HUME_API_KEY'], config['hume']['api_key']>>
Credentials == {None, "", "key"}
CredentialPairs == {<<None, None>>, <<"", "key">>, <<"key", None>>}

\* voices installed in the local synthesizer, in getProperty('voices') order
InstalledVoices ==
    <<[id |-> s_en, name |-> <<"E", "n">>],
      [id |-> s_en_us, name |-> <<"E", "n", " ", "U", "S">>]>>

\* Python `a in b` on strings
Contains(a, b) ==
    \E i \in 1..(Len(b) + 1) :
        /\ i + Len(a) - 1 <= Len(b)
        /\ SubSeq(b, i, i + Len(a) - 1) = a

\* Python truthiness of an optional string
Truthy(s) == s # None /\ s # ""
TruthySeq(s) == s # NoneSeq /\ s # <<>>

\* which call into the local synthesizer raises during an operation
Faults == {"none", "init", "rate", "volume", "voice"}

NoEngine == [present |-> FALSE, rate |-> NoneNum, volume |-> NoneNum, voice |-> NoneSeq]
\* a freshly started local engine: driver defaults, first installed voice
FreshEngine == [present |-> TRUE, rate |-> 200, volume |-> 10, voice |-> InstalledVoices[1].id]

----------------------------------------------------------------------------
(* corpus_speech.py : TextToSpeech *)

_default_config ==
    [engine |-> "hume",
     rate |-> DefaultRate,
     volume |-> DefaultVolume,
     voice_id |-> s_ito,
     api_key |-> None,
     format |-> "mp3",
     speed |-> DefaultSpeed,
     voice_description |-> None]

\* the facade object: its three attributes
Facade(c, h, p) == [config |-> c, hume_client |-> h, pyttsx3_engine |-> p]

\* index of the first installed voice whose id contains voice_id, 0 if none
FirstMatch(voice_id) ==
    LET hits == {i \in 1..Len(InstalledVoices) : Contains(voice_id, InstalledVoices[i].id)}
    IN  IF hits = {} THEN 0 ELSE CHOOSE i \in hits : \A j \in hits : i <= j

\* _configure_pyttsx3_voice: rate, volume, then the voice when one matches;
\* a raising setProperty leaves the remaining properties unapplied
_configure_pyttsx3_voice(f, fault) ==
    LET e0 == f.pyttsx3_engine
        c == f.config
        m == FirstMatch(c.voice_id)
        e1 == [e0 EXCEPT !.rate = c.rate]
        e2 == [e1 EXCEPT !.volume = c.volume]
        e3 == [e2 EXCEPT !.voice = InstalledVoices[m].id]
    IN  IF ~e0.present THEN [f |-> f, raised |-> FALSE]
        ELSE IF fault = "rate" THEN [f |-> f, raised |-> TRUE]
        ELSE IF fault = "volume"
            THEN [f |-> [f EXCEPT !.pyttsx3_engine = e1], raised |-> TRUE]
        ELSE IF TruthySeq(c.voice_id) /\ m # 0
            THEN IF fault = "voice"
                 THEN [f |-> [f EXCEPT !.pyttsx3_engine = e2], raised |-> TRUE]
                 ELSE [f |-> [f EXCEPT !.pyttsx3_engine = e3], raised |-> FALSE]
        ELSE [f |-> [f EXCEPT !.pyttsx3_engine = e2], raised |-> FALSE]

\* _initialize_pyttsx3 with a local failure answered by a cloud attempt
_initialize_pyttsx3_retry_cloud(f, fault, trace) ==
    LET t == Append(trace, "pyttsx3")
        eng == IF f.pyttsx3_engine.present THEN f.pyttsx3_engine ELSE FreshEngine
        r == _configure_pyttsx3_voice([f EXCEPT !.pyttsx3_engine = eng], fault)
    IN  IF fault = "init"
        THEN [f |-> [f EXCEPT !.hume_client = TRUE, !.config.engine = "hume"],
              raised |-> FALSE, trace |-> Append(t, "hume")]
        ELSE [f |-> r.f, raised |-> r.raised, trace |-> t]

\* _initialize_pyttsx3: pyttsx3.init() hands back the process's engine (the
\* one already held, or a fresh one), then configures it; any exception is
\* logged and raised again.  trace lists the adapters whose initialization
\* was attempted.
_initialize_pyttsx3(f, fault, trace) ==
    LET t == Append(trace, "pyttsx3")
        eng == IF f.pyttsx3_engine.present THEN f.pyttsx3_engine ELSE FreshEngine
        r == _configure_pyttsx3_voice([f EXCEPT !.pyttsx3_engine = eng], fault)
    IN  IF fault = "init"
        THEN [f |-> f, raised |-> TRUE, trace |-> t]
        ELSE [f |-> r.f, raised |-> r.raised, trace |-> t]

\* _initialize_hume raising on a missing credential instead of falling back
_initialize_hume_no_fallback(f, env, mixerOK, fault, trace) ==
    LET t == Append(trace, "hume")
        api_key == IF Truthy(env) THEN env ELSE f.config.api_key
        fallback(g) == _initialize_pyttsx3([g EXCEPT !.config.engine = "pyttsx3"], fault, t)
        with(r, mixer) == [f |-> r.f, raised |-> r.raised, trace |-> r.trace, mixer |-> mixer]
    IN  IF ~Truthy(api_key)
        THEN [f |-> f, raised |-> TRUE, trace |-> t, mixer |-> "not reached"]
        ELSE IF ~mixerOK THEN with(fallback([f EXCEPT !.hume_client = TRUE]), "failed")
        ELSE [f |-> [f EXCEPT !.hume_client = TRUE], raised |-> FALSE, trace |-> t,
              mixer |-> "ok"]

\* _initialize_hume building the client without keeping it
_initialize_hume_client_dropped(f, env, mixerOK, fault, trace) ==
    LET t == Append(trace, "hume")
        api_key == IF Truthy(env) THEN env ELSE f.config.api_key
        fallback(g) == _initialize_pyttsx3([g EXCEPT !.config.engine = "pyttsx3"], fault, t)
        with(r, mixer) == [f |-> r.f, raised |-> r.raised, trace |-> r.trace, mixer |-> mixer]
    IN  IF ~Truthy(api_key) THEN with(fallback(f), "not reached")
        ELSE IF ~mixerOK THEN with(fallback(f), "failed")
        ELSE [f |-> f, raised |-> FALSE, trace |-> t, mixer |-> "ok"]

\* _initialize_hume discarding the local engine once the client is built
_initialize_hume_teardown(f, env, mixerOK, fault, trace) ==
    LET t == Append(trace, "hume")
        api_key == IF Truthy(env) THEN env ELSE f.config.api_key
        fallback(g) == _initialize_pyttsx3([g EXCEPT !.config.engine = "pyttsx3"], fault, t)
        with(r, mixer) == [f |-> r.f, raised |-> r.raised, trace |-> r.trace, mixer |-> mixer]
    IN  IF ~Truthy(api_key) THEN with(fallback(f), "not reached")
        ELSE IF ~mixerOK THEN with(fallback([f EXCEPT !.hume_client = TRUE]), "failed")
        ELSE [f |-> [f EXCEPT !.hume_client = TRUE, !.pyttsx3_engine = NoEngine],
              raised |-> FALSE, trace |-> t, mixer |-> "ok"]

\* _initialize_hume: the credential comes from the environment, else from
\* the configuration; a missing credential or a failing mixer falls back
\* to pyttsx3 after writing 'pyttsx3' into the configuration.  mixer says
\* what became of pygame.mixer.init().
_initialize_hume(f, env, mixerOK, fault, trace) ==
    LET t == Append(trace, "hume")
        api_key == IF Truthy(env) THEN env ELSE f.config.api_key
        fallback(g) == _initialize_pyttsx3([g EXCEPT !.config.engine = "pyttsx3"], fault, t)
        with(r, mixer) == [f |-> r.f, raised |-> r.raised, trace |-> r.trace, mixer |-> mixer]
    IN  IF ~Truthy(api_key) THEN with(fallback(f), "not reached")
        ELSE IF ~mixerOK THEN with(fallback([f EXCEPT !.hume_client = TRUE]), "failed")
        ELSE [f |-> [f EXCEPT !.hume_client = TRUE], raised |-> FALSE, trace |-> t,
              mixer |-> "ok"]

_initialize_engines(f, env, mixerOK, fault) ==
    IF f.config.engine = "hume"
    THEN _initialize_hume(f, env, mixerOK, fault, <<>>)
    ELSE LET r == _initialize_pyttsx3(f, fault, <<>>)
         IN  [f |-> r.f, raised |-> r.raised, trace |-> r.trace, mixer |-> "not reached"]

\* str.lower() on the audio format names a configuration may hold
LowerFormat(fmt) ==
    CASE fmt = "WAV" -> "wav"
      [] fmt = "Wav" -> "wav"
      [] fmt = "MP3" -> "mp3"
      [] OTHER -> fmt

NoUtterance == [text |-> None, voice_id |-> NoneSeq, description |-> None, format |-> None]

\* audio payloads: generation i of a provider response carries the base64
\* text <<"b64", i>>, which decodes to the bytes <<"bytes", i>>
NoAudio == <<"none", 0>>
Generations(n) == [i \in 1..n |-> [audio |-> <<"b64", i>>]]
B64Decode(audio_b64) == <<"bytes", audio_b64[2]>>

\* pygame.mixer.music before anything was loaded
Silent == [loaded |-> NoAudio, busy |-> FALSE]

\* no request is being served: the thread of a POST /speak and the thread
\* of a POST /engine are both outside their handlers.  A speaker keeps the
\* outcome of its last call (dispatch, result, raisedIn) and whether that
\* call read the engine name while a switch was under way (during); a
\* switcher keeps whether the engine in use when it began had its handle
\* (healthy).
NoSpeak ==
    [pc |-> "idle", engine_type |-> None, text |-> None, dispatch |-> "pending",
     utterance |-> NoUtterance, audio |-> NoAudio, started |-> FALSE, waited |-> FALSE,
     during |-> FALSE, result |-> FALSE, raisedIn |-> "none", generations |-> 0]
NoSwitch ==
    [pc |-> "idle", engine |-> None, raised |-> FALSE, healthy |-> FALSE,
     mixer |-> "not reached"]
NoCalls == [speaker |-> NoSpeak, switcher |-> NoSwitch]

\* the outcome of a speak call: result is what the caller gets, raised
\* whether an exception reached the caller instead, raisedIn the step whose
\* exception was caught, played whether the output stage was invoked
\* (_play_audio_bytes, or say/runAndWait), audio the bytes handed to it
SpeakOutcome(result, dispatch, u, played, audio, raisedIn) ==
    [result |-> result, raised |-> FALSE, dispatch |-> dispatch, utterance |-> u,
     played |-> played, audio |-> audio, raisedIn |-> raisedIn]

\* _play_audio_bytes: load, play and wait; an exception is logged and
\* raised again
_play_audio_bytes(audio_bytes, fault) ==
    [loaded |-> audio_bytes, raised |-> fault = "playback"]

\* _speak_with_hume speaking with the voice and description the facade was
\* constructed with
_speak_with_hume_copied(f, text, generations, fault) ==
    LET voice_description == _default_config.voice_description
        u == [text |-> text,
              voice_id |-> _default_config.voice_id,
              description |-> IF Truthy(voice_description) THEN voice_description
                              ELSE "Natural conversational tone",
              format |-> IF LowerFormat(f.config.format) = "wav" THEN "wav" ELSE "mp3"]
        response == Generations(generations)
    IN  IF fault = "provider"
        THEN SpeakOutcome(FALSE, "hume", u, FALSE, NoAudio, "provider")
        ELSE IF Len(response) > 0
            THEN IF fault = "decode"
                 THEN SpeakOutcome(FALSE, "hume", u, FALSE, NoAudio, "decode")
                 ELSE LET p == _play_audio_bytes(B64Decode(response[1].audio), fault)
                      IN  IF p.raised
                          THEN SpeakOutcome(FALSE, "hume", u, TRUE, p.loaded, "playback")
                          ELSE SpeakOutcome(TRUE, "hume", u, TRUE, p.loaded, "none")
        ELSE SpeakOutcome(FALSE, "hume", u, FALSE, NoAudio, "none")

\* _speak_with_hume letting a playback exception reach the caller
_speak_with_hume_propagates(f, text, generations, fault) ==
    LET voice_description == f.config.voice_description
        u == [text |-> text,
              voice_id |-> f.config.voice_id,
              description |-> IF Truthy(voice_description) THEN voice_description
                              ELSE "Natural conversational tone",
              format |-> IF LowerFormat(f.config.format) = "wav" THEN "wav" ELSE "mp3"]
        response == Generations(generations)
    IN  IF fault = "provider"
        THEN SpeakOutcome(FALSE, "hume", u, FALSE, NoAudio, "provider")
        ELSE IF Len(response) > 0
            THEN IF fault = "decode"
                 THEN SpeakOutcome(FALSE, "hume", u, FALSE, NoAudio, "decode")
                 ELSE LET p == _play_audio_bytes(B64Decode(response[1].audio), fault)
                      IN  IF p.raised
                          THEN [SpeakOutcome(FALSE, "hume", u, TRUE, p.loaded, "playback")
                                  EXCEPT !.raised = TRUE]
                          ELSE SpeakOutcome(TRUE, "hume", u, TRUE, p.loaded, "none")
        ELSE SpeakOutcome(FALSE, "hume", u, FALSE, NoAudio, "none")

\* _speak_with_hume playing the last generation of the response
_speak_with_hume_plays_last(f, text, generations, fault) ==
    LET voice_description == f.config.voice_description
        u == [text |-> text,
              voice_id |-> f.config.voice_id,
              description |-> IF Truthy(voice_description) THEN voice_description
                              ELSE "Natural conversational tone",
              format |-> IF LowerFormat(f.config.format) = "wav" THEN "wav" ELSE "mp3"]
        response == Generations(generations)
    IN  IF fault = "provider"
        THEN SpeakOutcome(FALSE, "hume", u, FALSE, NoAudio, "provider")
        ELSE IF Len(response) > 0
            THEN IF fault = "decode"
                 THEN SpeakOutcome(FALSE, "hume", u, FALSE, NoAudio, "decode")
                 ELSE LET p == _play_audio_bytes(B64Decode(response[Len(response)].audio),
                                                 fault)
                      IN  IF p.raised
                          THEN SpeakOutcome(FALSE, "hume", u, TRUE, p.loaded, "playback")
                          ELSE SpeakOutcome(TRUE, "hume", u, TRUE, p.loaded, "none")
        ELSE SpeakOutcome(FALSE, "hume", u, FALSE, NoAudio, "none")

\* _speak_with_hume: one utterance built from the configuration as it is at
\* the call (text, description, voice; the format is passed beside it); the
\* provider answers with `generations` generations unless a step raises
\* (fault: "provider", "decode", "playback"); the first generation is
\* decoded and played; every exception is caught and turned into False
_speak_with_hume(f, text, generations, fault) ==
    LET voice_description == f.config.voice_description
        u == [text |-> text,
              voice_id |-> f.config.voice_id,
              description |-> IF Truthy(voice_description) THEN voice_description
                              ELSE "Natural conversational tone",
              format |-> IF LowerFormat(f.config.format) = "wav" THEN "wav" ELSE "mp3"]
        response == Generations(generations)
    IN  IF fault = "provider"
        THEN SpeakOutcome(FALSE, "hume", u, FALSE, NoAudio, "provider")
        ELSE IF Len(response) > 0
            THEN IF fault = "decode"
                 THEN SpeakOutcome(FALSE, "hume", u, FALSE, NoAudio, "decode")
                 ELSE LET p == _play_audio_bytes(B64Decode(response[1].audio), fault)
                      IN  IF p.raised
                          THEN SpeakOutcome(FALSE, "hume", u, TRUE, p.loaded, "playback")
                          ELSE SpeakOutcome(TRUE, "hume", u, TRUE, p.loaded, "none")
        ELSE SpeakOutcome(FALSE, "hume", u, FALSE, NoAudio, "none")

\* _speak_with_pyttsx3: say and runAndWait; an exception gives False
_speak_with_pyttsx3(f, text, fault) ==
    IF ~f.pyttsx3_engine.present
    THEN SpeakOutcome(FALSE, "pyttsx3", NoUtterance, FALSE, NoAudio, "none")
    ELSE IF fault = "say"
        THEN SpeakOutcome(FALSE, "pyttsx3", NoUtterance, TRUE, NoAudio, "say")
        ELSE SpeakOutcome(TRUE, "pyttsx3", NoUtterance, TRUE, NoAudio, "none")

\* speak: dispatch on the configured engine name and the matching handle
speak(f, text, generations, fault) ==
    IF f.config.engine = "hume" /\ f.hume_client
    THEN _speak_with_hume(f, text, generations, fault)
    ELSE IF f.config.engine = "pyttsx3" /\ f.pyttsx3_engine.present
        THEN _speak_with_pyttsx3(f, text, fault)
    ELSE SpeakOutcome(FALSE, "none", NoUtterance, FALSE, NoAudio, "none")

\* SetHume writing a supplied rate into the configuration as well
SetHume_writes_rate(f, rate, volume, voice_id, voice_description) ==
    LET c0 == IF rate # NoneNum THEN [f.config EXCEPT !.rate = rate] ELSE f.config
        c1 == IF voice_id # NoneSeq THEN [c0 EXCEPT !.voice_id = voice_id] ELSE c0
        c2 == IF voice_description # None
              THEN [c1 EXCEPT !.voice_description = voice_description]
              ELSE c1
    IN  [f |-> [f EXCEPT !.config = c2], result |-> TRUE, raisedIn |-> "none"]

\* set_voice_properties, the branch taken when the configured engine is
\* 'hume': only voice_id and voice_description are written
SetHume(f, rate, volume, voice_id, voice_description) ==
    LET c1 == IF voice_id # NoneSeq THEN [f.config EXCEPT !.voice_id = voice_id]
              ELSE f.config
        c2 == IF voice_description # None
              THEN [c1 EXCEPT !.voice_description = voice_description]
              ELSE c1
    IN  [f |-> [f EXCEPT !.config = c2], result |-> TRUE, raisedIn |-> "none"]

\* SetPyttsx3 writing the voice into the configuration only
SetPyttsx3_config_only(f, rate, volume, voice_id, voice_description, fault) ==
    LET f1 == IF rate # NoneNum
              THEN [f EXCEPT !.pyttsx3_engine.rate = rate, !.config.rate = rate]
              ELSE f
        f2 == IF volume # NoneNum
              THEN [f1 EXCEPT !.pyttsx3_engine.volume = volume, !.config.volume = volume]
              ELSE f1
        f3 == IF voice_id # NoneSeq
              THEN [f2 EXCEPT !.config.voice_id = voice_id]
              ELSE f2
    IN  IF rate # NoneNum /\ fault = "rate"
        THEN [f |-> f, result |-> FALSE, raisedIn |-> "rate"]
        ELSE IF volume # NoneNum /\ fault = "volume"
        THEN [f |-> f1, result |-> FALSE, raisedIn |-> "volume"]
        ELSE IF voice_id # NoneSeq /\ fault = "voice"
        THEN [f |-> f2, result |-> FALSE, raisedIn |-> "voice"]
        ELSE [f |-> f3, result |-> TRUE, raisedIn |-> "none"]

\* SetPyttsx3 writing each value into the configuration before it is
\* applied to the engine
SetPyttsx3_config_first(f, rate, volume, voice_id, voice_description, fault) ==
    LET f1 == IF rate # NoneNum
              THEN [f EXCEPT !.pyttsx3_engine.rate = rate, !.config.rate = rate]
              ELSE f
        f2 == IF volume # NoneNum
              THEN [f1 EXCEPT !.pyttsx3_engine.volume = volume, !.config.volume = volume]
              ELSE f1
        f3 == IF voice_id # NoneSeq
              THEN [f2 EXCEPT !.pyttsx3_engine.voice = voice_id, !.config.voice_id = voice_id]
              ELSE f2
    IN  IF rate # NoneNum /\ fault = "rate"
        THEN [f |-> [f EXCEPT !.config.rate = rate], result |-> FALSE, raisedIn |-> "rate"]
        ELSE IF volume # NoneNum /\ fault = "volume"
        THEN [f |-> [f1 EXCEPT !.config.volume = volume], result |-> FALSE,
              raisedIn |-> "volume"]
        ELSE IF voice_id # NoneSeq /\ fault = "voice"
        THEN [f |-> [f2 EXCEPT !.config.voice_id = voice_id], result |-> FALSE,
              raisedIn |-> "voice"]
        ELSE [f |-> f3, result |-> TRUE, raisedIn |-> "none"]

\* SetPyttsx3 returning True from the exception handler
SetPyttsx3_swallow(f, rate, volume, voice_id, voice_description, fault) ==
    LET f1 == IF rate # NoneNum
              THEN [f EXCEPT !.pyttsx3_engine.rate = rate, !.config.rate = rate]
              ELSE f
        f2 == IF volume # NoneNum
              THEN [f1 EXCEPT !.pyttsx3_engine.volume = volume, !.config.volume = volume]
              ELSE f1
        f3 == IF voice_id # NoneSeq
              THEN [f2 EXCEPT !.pyttsx3_engine.voice = voice_id, !.config.voice_id = voice_id]
              ELSE f2
    IN  IF rate # NoneNum /\ fault = "rate"
        THEN [f |-> f, result |-> TRUE, raisedIn |-> "rate"]
        ELSE IF volume # NoneNum /\ fault = "volume"
        THEN [f |-> f1, result |-> TRUE, raisedIn |-> "volume"]
        ELSE IF voice_id # NoneSeq /\ fault = "voice"
        THEN [f |-> f2, result |-> TRUE, raisedIn |-> "voice"]
        ELSE [f |-> f3, result |-> TRUE, raisedIn |-> "none"]

\* set_voice_properties, the branch taken when the configured engine is
\* 'pyttsx3' and its handle is present: each supplied property is applied
\* to the engine and then written to the configuration, in the order rate,
\* volume, voice; a raising setProperty ends the call with False (raisedIn
\* names the property whose setter raised)
SetPyttsx3(f, rate, volume, voice_id, voice_description, fault) ==
    LET f1 == IF rate # NoneNum
              THEN [f EXCEPT !.pyttsx3_engine.rate = rate, !.config.rate = rate]
              ELSE f
        f2 == IF volume # NoneNum
              THEN [f1 EXCEPT !.pyttsx3_engine.volume = volume, !.config.volume = volume]
              ELSE f1
        f3 == IF voice_id # NoneSeq
              THEN [f2 EXCEPT !.pyttsx3_engine.voice = voice_id, !.config.voice_id = voice_id]
              ELSE f2
    IN  IF rate # NoneNum /\ fault = "rate"
        THEN [f |-> f, result |-> FALSE, raisedIn |-> "rate"]
        ELSE IF volume # NoneNum /\ fault = "volume"
        THEN [f |-> f1, result |-> FALSE, raisedIn |-> "volume"]
        ELSE IF voice_id # NoneSeq /\ fault = "voice"
        THEN [f |-> f2, result |-> FALSE, raisedIn |-> "voice"]
        ELSE [f |-> f3, result |-> TRUE, raisedIn |-> "none"]

set_voice_properties(f, rate, volume, voice_id, voice_description, fault) ==
    IF f.config.engine = "hume"
    THEN SetHume(f, rate, volume, voice_id, voice_description)
    ELSE IF f.config.engine = "pyttsx3" /\ f.pyttsx3_engine.present
        THEN SetPyttsx3(f, rate, volume, voice_id, voice_description, fault)
    ELSE [f |-> f, result |-> FALSE, raisedIn |-> "none"]

NoInfo == [engine |-> None, available |-> FALSE, voice_id |-> NoneSeq,
           hume_available |-> FALSE, pyttsx3_available |-> FALSE]

get_engine_info(f) ==
    [engine |-> f.config.engine,
     available |-> IF f.config.engine = "hume" THEN f.hume_client
                   ELSE f.pyttsx3_engine.present,
     voice_id |-> f.config.voice_id,
     hume_available |-> f.hume_client,
     pyttsx3_available |-> f.pyttsx3_engine.present]

----------------------------------------------------------------------------
(* corpus_speech.py : the voice directory *)

\* str.lower() on one character
LowerChar(c) ==
    CASE c = "A" -> "a"
      [] c = "B" -> "b"
      [] c = "C" -> "c"
      [] c = "D" -> "d"
      [] c = "E" -> "e"
      [] c = "F" -> "f"
      [] c = "G" -> "g"
      [] c = "H" -> "h"
      [] c = "I" -> "i"
      [] c = "J" -> "j"
      [] c = "K" -> "k"
      [] c = "L" -> "l"
      [] c = "M" -> "m"
      [] c = "N" -> "n"
      [] c = "O" -> "o"
      [] c = "P" -> "p"
      [] c = "Q" -> "q"
      [] c = "R" -> "r"
      [] c = "S" -> "s"
      [] c = "T" -> "t"
      [] c = "U" -> "u"
      [] c = "V" -> "v"
      [] c = "W" -> "w"
      [] c = "X" -> "x"
      [] c = "Y" -> "y"
      [] c = "Z" -> "z"
      [] OTHER -> c

Lower(str) == [i \in 1..Len(str) |-> LowerChar(str[i])]

\* str.split(' -')[0]: the part before the first " -", the whole string
\* when there is none
SplitDash(str) ==
    LET cuts == {i \in 1..Len(str) : i < Len(str) /\ str[i] = " " /\ str[i + 1] = "-"}
    IN  IF cuts = {} THEN str
        ELSE SubSeq(str, 1, (CHOOSE i \in cuts : \A j \in cuts : i <= j) - 1)

HumeSuffix == <<" ", "-", " ", "H", "u", "m", "e", " ", "V", "o", "i", "c", "e">>
EmptyTags == <<>>

\* the voices the provider's listing endpoint returns: name may be None,
\* the provider and tags attributes may be missing
ProviderVoices ==
    <<[id |-> s_ito, name |-> <<"I", "t", "o">>, has_provider |-> TRUE, provider |-> "HUME_AI",
       has_tags |-> TRUE, tags |-> [GENDER |-> "male"]],
      [id |-> s_dacher, name |-> NoneSeq, has_provider |-> FALSE, provider |-> None,
       has_tags |-> FALSE, tags |-> EmptyTags]>>

\* one provider record mapped into the dictionary the facade returns
MapVoice(v) ==
    [id |-> v.id,
     name |-> (IF TruthySeq(v.name) THEN v.name ELSE v.id) \o HumeSuffix,
     provider |-> IF v.has_provider THEN v.provider ELSE "hume",
     tags |-> IF v.has_tags THEN v.tags ELSE EmptyTags]

\* the hardcoded list returned when the provider listing fails
FallbackVoices ==
    <<[id |-> s_ito, name |-> <<"I", "t", "o", " ", "-", " ", "C", "o", "n", "v", "e", "r", "s", "a", "t", "i", "o", "n", "a", "l">>, provider |-> "hume"],
      [id |-> s_dacher, name |-> <<"D", "a", "c", "h", "e", "r", " ", "-", " ", "W", "a", "r", "m", " ", "a", "n", "d", " ", "a", "p", "p", "r", "o", "a", "c", "h", "a", "b", "l", "e">>, provider |-> "hume"],
      [id |-> <<"a", "i", "d", "e", "n">>, name |-> <<"A", "i", "d", "e", "n", " ", "-", " ", "C", "o", "n", "f", "i", "d", "e", "n", "t", " ", "a", "n", "d", " ", "c", "l", "e", "a", "r">>, provider |-> "hume"],
      [id |-> <<"d", "o", "r", "o", "t", "h", "y">>, name |-> <<"D", "o", "r", "o", "t", "h", "y", " ", "-", " ", "F", "r", "i", "e", "n", "d", "l", "y", " ", "a", "n", "d", " ", "e", "n", "g", "a", "g", "i", "n", "g">>, provider |-> "hume"]>>

\* the cache file .voice_cache.json: absent, not valid JSON ("malformed"),
\* valid JSON without a 'voices' entry ("other"), or a mapping with one
NoCache == [kind |-> "absent", voices |-> <<>>]
CacheOf(voices) == [kind |-> "voices", voices |-> voices]

\* what the provider's listing call does: raise, or return records
Listings == {[raises |-> TRUE, voices |-> <<>>], [raises |-> FALSE, voices |-> ProviderVoices]}

\* get_available_voices writing the hardcoded list into the cache
get_available_voices_caches_fallback(f, cache, listing, writeOK) ==
    IF f.config.engine = "hume" /\ f.hume_client
    THEN IF cache.kind = "voices"
         THEN [voices |-> cache.voices, cache |-> cache, called |-> FALSE]
         ELSE IF listing.raises
              THEN [voices |-> FallbackVoices,
                    cache |-> IF writeOK THEN CacheOf(FallbackVoices) ELSE cache,
                    called |-> TRUE]
              ELSE LET voices == [i \in 1..Len(listing.voices) |-> MapVoice(listing.voices[i])]
                   IN  [voices |-> voices,
                        cache |-> IF writeOK THEN CacheOf(voices) ELSE cache,
                        called |-> TRUE]
    ELSE IF f.pyttsx3_engine.present
         THEN [voices |-> [i \in 1..Len(InstalledVoices) |->
                              [id |-> InstalledVoices[i].id,
                               name |-> InstalledVoices[i].name,
                               provider |-> "pyttsx3"]],
               cache |-> cache, called |-> FALSE]
         ELSE [voices |-> <<>>, cache |-> cache, called |-> FALSE]

\* get_available_voices writing the cache only where no file exists
get_available_voices_keeps_file(f, cache, listing, writeOK) ==
    IF f.config.engine = "hume" /\ f.hume_client
    THEN IF cache.kind = "voices"
         THEN [voices |-> cache.voices, cache |-> cache, called |-> FALSE]
         ELSE IF listing.raises
              THEN [voices |-> FallbackVoices, cache |-> cache, called |-> TRUE]
              ELSE LET voices == [i \in 1..Len(listing.voices) |-> MapVoice(listing.voices[i])]
                   IN  [voices |-> voices,
                        cache |-> IF writeOK /\ cache.kind = "absent" THEN CacheOf(voices)
                                  ELSE cache,
                        called |-> TRUE]
    ELSE IF f.pyttsx3_engine.present
         THEN [voices |-> [i \in 1..Len(InstalledVoices) |->
                              [id |-> InstalledVoices[i].id,
                               name |-> InstalledVoices[i].name,
                               provider |-> "pyttsx3"]],
               cache |-> cache, called |-> FALSE]
         ELSE [voices |-> <<>>, cache |-> cache, called |-> FALSE]

\* get_available_voices asking the provider although the cache is usable
get_available_voices_expiring(f, cache, listing, writeOK) ==
    IF f.config.engine = "hume" /\ f.hume_client
    THEN IF listing.raises
         THEN [voices |-> IF cache.kind = "voices" THEN cache.voices ELSE FallbackVoices,
               cache |-> cache, called |-> TRUE]
         ELSE LET voices == [i \in 1..Len(listing.voices) |-> MapVoice(listing.voices[i])]
              IN  [voices |-> voices,
                   cache |-> IF writeOK THEN CacheOf(voices) ELSE cache,
                   called |-> TRUE]
    ELSE IF f.pyttsx3_engine.present
         THEN [voices |-> [i \in 1..Len(InstalledVoices) |->
                              [id |-> InstalledVoices[i].id,
                               name |-> InstalledVoices[i].name,
                               provider |-> "pyttsx3"]],
               cache |-> cache, called |-> FALSE]
         ELSE [voices |-> <<>>, cache |-> cache, called |-> FALSE]

\* get_available_voices: cache first, then the provider, then the hardcoded
\* list; the local engine's voices when the cloud engine is not the one in
\* use.  called says whether the provider was asked.
get_available_voices(f, cache, listing, writeOK) ==
    IF f.config.engine = "hume" /\ f.hume_client
    THEN IF cache.kind = "voices"
         THEN [voices |-> cache.voices, cache |-> cache, called |-> FALSE]
         ELSE IF listing.raises
              THEN [voices |-> FallbackVoices, cache |-> cache, called |-> TRUE]
              ELSE LET voices == [i \in 1..Len(listing.voices) |-> MapVoice(listing.voices[i])]
                   IN  [voices |-> voices,
                        cache |-> IF writeOK THEN CacheOf(voices) ELSE cache,
                        called |-> TRUE]
    ELSE IF f.pyttsx3_engine.present
         THEN [voices |-> [i \in 1..Len(InstalledVoices) |->
                              [id |-> InstalledVoices[i].id,
                               name |-> InstalledVoices[i].name,
                               provider |-> "pyttsx3"]],
               cache |-> cache, called |-> FALSE]
         ELSE [voices |-> <<>>, cache |-> cache, called |-> FALSE]

\* what a cache file may hold besides a 'voices' mapping: text that is
\* not JSON, and JSON that is no mapping with a 'voices' entry
MalformedCache == [kind |-> "malformed", voices |-> <<>>]
OtherCache == [kind |-> "other", voices |-> <<>>]

\* index of the first element of voices satisfying Test, 0 if none
FirstIndex(voices, Test(_)) ==
    LET hits == {i \in 1..Len(voices) : Test(voices[i])}
    IN  IF hits = {} THEN 0 ELSE CHOOSE i \in hits : \A j \in hits : i <= j

\* ResolveIn trying containment before the two equalities
ResolveIn_contains_first(voices, voice_name) ==
    LET q == Lower(voice_name)
        Has(v) == Contains(q, Lower(v.name))
        t3 == FirstIndex(voices, Has)
    IN  IF t3 # 0 THEN voices[t3].id ELSE NoneSeq

\* ResolveIn testing every voice against the three tiers in one scan
ResolveIn_single_pass(voices, voice_name) ==
    LET q == Lower(voice_name)
        AnyTier(v) == \/ Lower(v.name) = q
                      \/ Lower(SplitDash(v.name)) = q
                      \/ Contains(q, Lower(v.name))
        t == FirstIndex(voices, AnyTier)
    IN  IF t # 0 THEN voices[t].id ELSE NoneSeq

\* get_voice_id_by_name over an already fetched list: exact name, then the
\* name before " -", then containment, all case-insensitive
ResolveIn(voices, voice_name) ==
    LET q == Lower(voice_name)
        Exact(v) == Lower(v.name) = q
        Clean(v) == Lower(SplitDash(v.name)) = q
        Has(v) == Contains(q, Lower(v.name))
        t1 == FirstIndex(voices, Exact)
        t2 == FirstIndex(voices, Clean)
        t3 == FirstIndex(voices, Has)
    IN  IF t1 # 0 THEN voices[t1].id
        ELSE IF t2 # 0 THEN voices[t2].id
        ELSE IF t3 # 0 THEN voices[t3].id
        ELSE NoneSeq

\* get_voice_name_choices dropping names it has already produced
ChoicesIn_dedup(voices) ==
    LET all == [i \in 1..Len(voices) |-> SplitDash(voices[i].name)]
        kept == {i \in 1..Len(all) : \A j \in 1..(i - 1) : all[j] # all[i]}
    IN  [k \in 1..Cardinality(kept) |->
            all[CHOOSE i \in kept : Cardinality({j \in kept : j <= i}) = k]]

\* get_voice_name_choices over an already fetched list
ChoicesIn(voices) == [i \in 1..Len(voices) |-> SplitDash(voices[i].name)]

\* get_voice_id_by_name and get_voice_name_choices: each fetches the list
\* with get_available_voices first
get_voice_id_by_name(f, cache, listing, writeOK, voice_name) ==
    LET g == get_available_voices(f, cache, listing, writeOK)
    IN  [id |-> ResolveIn(g.voices, voice_name), voices |-> g.voices,
         cache |-> g.cache, called |-> g.called]

get_voice_name_choices(f, cache, listing, writeOK) ==
    LET g == get_available_voices(f, cache, listing, writeOK)
    IN  [choices |-> ChoicesIn(g.voices), voices |-> g.voices,
         cache |-> g.cache, called |-> g.called]

----------------------------------------------------------------------------
(* app_swagger.py : start-up and the request handlers *)

NoArgs == [rate |-> NoneNum, volume |-> NoneNum, voice_id |-> NoneSeq, voice_description |-> None]
Args(rate, volume, voice_id, voice_description) ==
    [rate |-> rate, volume |-> volume, voice_id |-> voice_id,
     voice_description |-> voice_description]

Blank ==
    [op |-> "none", code |-> 0, body |-> "", call |-> "none", args |-> NoArgs,
     result |-> FALSE, raised |-> FALSE, raisedIn |-> "none", trace |-> <<>>,
     engine |-> None, mixerOK |-> TRUE, mixer |-> "not reached", dispatch |-> "none",
     utterance |-> NoUtterance, played |-> FALSE, info |-> NoInfo,
     voices |-> <<>>, called |-> FALSE,
     text |-> None, generations |-> 0, audio |-> NoAudio,
     listRaises |-> TRUE, writeOK |-> TRUE, cacheKind |-> "absent",
     query |-> NoneSeq, id |-> NoneSeq, choices |-> <<>>]

Resp(op, code, body) == [Blank EXCEPT !.op = op, !.code = code, !.body = body]

Self == Facade(config, hume_client, pyttsx3_engine)

\* the facade's attributes after a call
Becomes(f) ==
    /\ config' = f.config
    /\ hume_client' = f.hume_client
    /\ pyttsx3_engine' = f.pyttsx3_engine

\* a handler that initializes the engines again when tts is None
NotInitialized_retry(op) ==
    LET r == _initialize_engines(Self, environ, TRUE, "none")
    IN  /\ Becomes(r.f)
        /\ tts' = IF r.raised THEN "None" ELSE "TextToSpeech"
        /\ last' = [Resp(op, 500, "TTS not initialized") EXCEPT !.trace = r.trace]
        /\ UNCHANGED <<environ, voice_cache, threads, music>>

\* every handler but /status starts with: if not tts: 500
NotInitialized(op) ==
    /\ last' = Resp(op, 500, "TTS not initialized")
    /\ UNCHANGED <<tts, config, environ, hume_client, pyttsx3_engine, voice_cache,
                   threads, music>>

VoiceNameArgs == {NoneSeq, <<"I", "t", "o">>, <<"u", "s">>}

\* the configurations a config.yaml may hold: the defaults with any engine
\* name and credential
LoadedConfigs(api_key) == {[_default_config EXCEPT !.engine = e, !.api_key = api_key] : e \in ConfigEngines}

Init ==
    /\ tts = "unset"
    /\ \E cred \in CredentialPairs :
          /\ environ = cred[1]
          /\ config \in LoadedConfigs(cred[2])
    /\ hume_client = FALSE
    /\ pyttsx3_engine = NoEngine
    /\ voice_cache = NoCache
    /\ last = Blank
    /\ threads = NoCalls
    /\ music = Silent

\* Inputs that decide nothing are not enumerated: a call that is never made
\* cannot raise, a provider that is not asked returns nothing.

\* the property setters set_voice_properties will call in state f
SetFaultsFor(f, rate, volume, voice_id) ==
    {"none"} \cup
    (IF f.config.engine = "pyttsx3" /\ f.pyttsx3_engine.present
     THEN {x \in {"rate"} : rate # NoneNum} \cup {x \in {"volume"} : volume # NoneNum}
          \cup {x \in {"voice"} : voice_id # NoneSeq}
     ELSE {})

\* whether _initialize_engines in state f reaches pygame.mixer.init()
ReachesMixer(f, env) ==
    f.config.engine = "hume" /\ Truthy(IF Truthy(env) THEN env ELSE f.config.api_key)

\* the calls into pyttsx3 that _initialize_engines will make in state f
InitFaultsFor(f, env, mixerOK) ==
    {"none"} \cup
    (IF ReachesMixer(f, env) /\ mixerOK THEN {}
     ELSE {"init", "rate", "volume"} \cup
          {x \in {"voice"} : TruthySeq(f.config.voice_id) /\ FirstMatch(f.config.voice_id) # 0})

InitInputOK(f, env, mixerOK, fault) ==
    /\ mixerOK \/ ReachesMixer(f, env)
    /\ fault \in InitFaultsFor(f, env, mixerOK)

\* whether get_available_voices in state f asks the provider
AsksProvider(f, cache) ==
    f.config.engine = "hume" /\ f.hume_client /\ cache.kind # "voices"

NoListing(listing, writeOK) == listing.raises /\ writeOK

ListingInputOK(f, cache, listing, writeOK) ==
    IF AsksProvider(f, cache) THEN listing.raises => writeOK
    ELSE NoListing(listing, writeOK)

\* the steps of speak that can go wrong in state f
SpeakInputOK(f, generations, fault) ==
    IF f.config.engine = "hume" /\ f.hume_client
    THEN \/ fault \in {"none", "provider"} /\ (fault = "provider" => generations = 0)
         \/ fault \in {"decode", "playback"} /\ generations > 0
    ELSE IF f.config.engine = "pyttsx3" /\ f.pyttsx3_engine.present
    THEN fault \in {"none", "say"} /\ generations = 0
    ELSE fault = "none" /\ generations = 0

Unchanged ==
    UNCHANGED <<tts, config, environ, hume_client, pyttsx3_engine, voice_cache,
                threads, music>>

\* start-up: tts = TextToSpeech(), None when the constructor raises; then
\* the voice names for the documentation are read from the facade
\* (VOICE_CHOICES, used by no handler), which may fill the voice cache
Construct(mixerOK, fault, listing, writeOK) ==
    /\ tts = "unset"
    /\ InitInputOK(Self, environ, mixerOK, fault)
    /\ LET r == _initialize_engines(Self, environ, mixerOK, fault)
           g == get_available_voices(r.f, voice_cache, listing, writeOK)
       IN  /\ IF r.raised THEN NoListing(listing, writeOK)
              ELSE ListingInputOK(r.f, voice_cache, listing, writeOK)
           /\ Becomes(r.f)
           /\ tts' = IF r.raised THEN "None" ELSE "TextToSpeech"
           /\ voice_cache' = IF r.raised THEN voice_cache ELSE g.cache
           /\ last' = [Blank EXCEPT !.op = "construct", !.call = "_initialize_engines",
                                    !.raised = r.raised, !.trace = r.trace,
                                    !.mixerOK = mixerOK, !.mixer = r.mixer]
    /\ UNCHANGED <<environ, threads, music>>

\* POST /speak
SpeakReq(text, generations, fault) ==
    /\ tts # "unset"
    /\ IF tts = "None"
       THEN /\ fault = "none" /\ generations = 0
            /\ NotInitialized("speak")
       ELSE IF text = None
       THEN /\ fault = "none" /\ generations = 0
            /\ last' = Resp("speak", 400, "Missing 'text' field")
            /\ Unchanged
       ELSE LET r == speak(Self, text, generations, fault)
            IN  /\ SpeakInputOK(Self, generations, fault)
                /\ last' = [Resp("speak",
                                 IF r.result /\ ~r.raised THEN 200 ELSE 500,
                                 IF r.raised THEN "Internal Server Error"
                                 ELSE IF r.result THEN "success" ELSE "Failed to speak text")
                              EXCEPT !.call = "speak", !.result = r.result,
                                     !.raised = r.raised, !.raisedIn = r.raisedIn,
                                     !.dispatch = r.dispatch, !.utterance = r.utterance,
                                     !.played = r.played, !.audio = r.audio,
                                     !.text = text, !.generations = generations]
                /\ Unchanged

\* GET /status
StatusReq(listing, writeOK) ==
    /\ tts # "unset"
    /\ IF tts = "None"
       THEN /\ NoListing(listing, writeOK)
            /\ last' = Resp("status", 200, "error")
            /\ UNCHANGED voice_cache
       ELSE LET g == get_available_voices(Self, voice_cache, listing, writeOK)
            IN  /\ ListingInputOK(Self, voice_cache, listing, writeOK)
                /\ last' = [Resp("status", 200, "running") EXCEPT
                               !.call = "get_available_voices",
                               !.voices = g.voices, !.called = g.called]
                /\ voice_cache' = g.cache
    /\ UNCHANGED <<tts, config, environ, hume_client, pyttsx3_engine, threads, music>>

\* GET /voices
VoicesReq(listing, writeOK) ==
    /\ tts # "unset"
    /\ IF tts = "None"
       THEN /\ NoListing(listing, writeOK)
            /\ NotInitialized("voices")
       ELSE LET g == get_available_voices(Self, voice_cache, listing, writeOK)
            IN  /\ ListingInputOK(Self, voice_cache, listing, writeOK)
                /\ last' = [Resp("voices", 200, "voices") EXCEPT
                               !.call = "get_available_voices",
                               !.voices = g.voices, !.called = g.called,
                               !.listRaises = listing.raises, !.writeOK = writeOK,
                               !.cacheKind = voice_cache.kind]
                /\ voice_cache' = g.cache
                /\ UNCHANGED <<tts, config, environ, hume_client, pyttsx3_engine,
                               threads, music>>

\* what a handler does with the outcome of set_voice_properties
AfterSet(op, r, a, failure) ==
    /\ Becomes(r.f)
    /\ last' = [Resp(op, IF r.result THEN 200 ELSE 500,
                     IF r.result THEN "success" ELSE failure)
                  EXCEPT !.call = "set_voice_properties", !.args = a,
                         !.result = r.result, !.raisedIn = r.raisedIn]

\* POST /config: rate, volume and voice_id of the JSON body
ConfigReq(hasData, rate, volume, voice_id, fault) ==
    /\ tts # "unset"
    /\ IF tts = "None"
       THEN /\ fault = "none"
            /\ NotInitialized("config")
       ELSE IF ~hasData
       THEN /\ fault = "none" /\ rate = NoneNum /\ volume = NoneNum /\ voice_id = NoneSeq
            /\ last' = Resp("config", 400, "No configuration data provided")
            /\ Unchanged
       ELSE /\ fault \in SetFaultsFor(Self, rate, volume, voice_id)
            /\ AfterSet("config",
                        set_voice_properties(Self, rate, volume, voice_id, None, fault),
                        Args(rate, volume, voice_id, None),
                        "Failed to update configuration")
            /\ UNCHANGED <<tts, environ, voice_cache, threads, music>>

\* POST /voice: the voice name is resolved to an id over the current list;
\* when it resolves to nothing the list is fetched a second time for the
\* error message
VoiceReq(voice_name, listing1, listing2, writeOK, fault) ==
    /\ tts # "unset"
    /\ IF tts = "None"
       THEN /\ fault = "none" /\ NoListing(listing1, writeOK) /\ listing2 = listing1
            /\ NotInitialized("voice")
       ELSE IF ~TruthySeq(voice_name)
       THEN /\ fault = "none" /\ NoListing(listing1, writeOK) /\ listing2 = listing1
            /\ last' = Resp("voice", 400, "Missing 'voice_name' parameter")
            /\ Unchanged
       ELSE LET g1 == get_available_voices(Self, voice_cache, listing1, writeOK)
                voice_id == ResolveIn(g1.voices, voice_name)
                g2 == get_available_voices(Self, g1.cache, listing2, writeOK)
            IN  /\ ListingInputOK(Self, voice_cache, listing1, writeOK)
                /\ IF ~TruthySeq(voice_id)
                   THEN /\ IF AsksProvider(Self, g1.cache) THEN TRUE ELSE listing2 = listing1
                        /\ fault = "none"
                        /\ last' = [Resp("voice", 400, "Voice not found") EXCEPT
                                       !.call = "get_voice_id_by_name",
                                       !.voices = g2.voices,
                                       !.called = g1.called \/ g2.called]
                        /\ voice_cache' = g2.cache
                        /\ UNCHANGED <<tts, config, environ, hume_client, pyttsx3_engine,
                                       threads, music>>
                   ELSE /\ listing2 = listing1
                        /\ fault \in SetFaultsFor(Self, NoneNum, NoneNum, voice_id)
                        /\ AfterSet("voice",
                                    set_voice_properties(Self, NoneNum, NoneNum, voice_id,
                                                         None, fault),
                                    Args(NoneNum, NoneNum, voice_id, None),
                                    "Failed to set voice")
                        /\ voice_cache' = g1.cache
                        /\ UNCHANGED <<tts, environ, threads, music>>

\* int(200 * speed), speed in tenths
RateOfSpeed(speed) == (BaseRate * speed) \div 10

\* POST /speed: written to the configuration for 'hume', turned into a
\* words-per-minute rate otherwise
SpeedReq(speed, fault) ==
    /\ tts # "unset"
    /\ IF tts = "None"
       THEN /\ fault = "none"
            /\ NotInitialized("speed")
       ELSE IF speed = NoneNum
       THEN /\ fault = "none"
            /\ last' = Resp("speed", 400, "Missing 'speed' parameter")
            /\ Unchanged
       ELSE IF speed \notin SPEED_CHOICES
       THEN /\ fault = "none"
            /\ last' = Resp("speed", 400, "Invalid speed")
            /\ Unchanged
       ELSE IF config.engine = "hume"
       THEN /\ fault = "none"
            /\ config' = [config EXCEPT !.speed = speed]
            /\ last' = Resp("speed", 200, "success")
            /\ UNCHANGED <<tts, environ, hume_client, pyttsx3_engine, voice_cache,
                           threads, music>>
       ELSE /\ fault \in SetFaultsFor(Self, RateOfSpeed(speed), NoneNum, NoneSeq)
            /\ AfterSet("speed",
                        set_voice_properties(Self, RateOfSpeed(speed), NoneNum, NoneSeq,
                                             None, fault),
                        Args(RateOfSpeed(speed), NoneNum, NoneSeq, None),
                        "Failed to set speech speed")
            /\ UNCHANGED <<tts, environ, voice_cache, threads, music>>

\* the default description of /emotion: f"Natural {emotion} tone"
NaturalTone(emotion) ==
    CASE emotion = "calm" -> "Natural calm tone"
      [] OTHER -> "Natural tone"

\* POST /emotion
EmotionReq(emotion, description) ==
    /\ tts # "unset"
    /\ IF tts = "None" THEN NotInitialized("emotion")
       ELSE IF emotion = None
       THEN /\ last' = Resp("emotion", 400, "Missing 'emotion' parameter")
            /\ Unchanged
       ELSE IF emotion \notin EMOTION_CHOICES
       THEN /\ last' = Resp("emotion", 400, "Invalid emotion")
            /\ Unchanged
       ELSE LET d == IF description = None THEN NaturalTone(emotion) ELSE description
            IN  /\ AfterSet("emotion",
                            set_voice_properties(Self, NoneNum, NoneNum, NoneSeq, d, "none"),
                            Args(NoneNum, NoneNum, NoneSeq, d),
                            "Failed to set emotion")
                /\ UNCHANGED <<tts, environ, voice_cache, threads, music>>

\* POST /engine writing the name without initializing the engines again
EngineReq_name_only(engine, mixerOK, fault) ==
    /\ tts # "unset"
    /\ fault = "none" /\ mixerOK
    /\ IF tts = "None"
       THEN NotInitialized("engine")
       ELSE IF engine = None
       THEN /\ last' = Resp("engine", 400, "Missing 'engine' parameter")
            /\ Unchanged
       ELSE IF engine \notin ENGINE_CHOICES
       THEN /\ last' = Resp("engine", 400, "Invalid engine")
            /\ Unchanged
       ELSE /\ config' = [config EXCEPT !.engine = engine]
            /\ last' = [Resp("engine", 200, "success") EXCEPT !.engine = engine]
            /\ UNCHANGED <<tts, environ, hume_client, pyttsx3_engine, voice_cache,
                           threads, music>>

\* POST /engine leaving the requested name in the configuration when the
\* initialization raises
EngineReq_keeps_requested(engine, mixerOK, fault) ==
    /\ tts # "unset"
    /\ IF tts = "None"
       THEN /\ fault = "none" /\ mixerOK
            /\ NotInitialized("engine")
       ELSE IF engine = None
       THEN /\ fault = "none" /\ mixerOK
            /\ last' = Resp("engine", 400, "Missing 'engine' parameter")
            /\ Unchanged
       ELSE IF engine \notin ENGINE_CHOICES
       THEN /\ fault = "none" /\ mixerOK
            /\ last' = Resp("engine", 400, "Invalid engine")
            /\ Unchanged
       ELSE LET f == [Self EXCEPT !.config.engine = engine]
                r == _initialize_engines(f, environ, mixerOK, fault)
            IN  /\ InitInputOK(f, environ, mixerOK, fault)
                /\ Becomes(IF r.raised THEN [r.f EXCEPT !.config.engine = engine] ELSE r.f)
                /\ last' = [Resp("engine", IF r.raised THEN 500 ELSE 200,
                                 IF r.raised THEN "Failed to switch" ELSE "success")
                              EXCEPT !.call = "_initialize_engines", !.engine = engine,
                                     !.raised = r.raised, !.trace = r.trace,
                                     !.mixerOK = mixerOK, !.mixer = r.mixer]
                /\ UNCHANGED <<tts, environ, voice_cache, threads, music>>

\* POST /engine: the name is written into the configuration, then the
\* engines are initialized again; success unless that raises
EngineReq(engine, mixerOK, fault) ==
    /\ tts # "unset"
    /\ IF tts = "None"
       THEN /\ fault = "none" /\ mixerOK
            /\ NotInitialized("engine")
       ELSE IF engine = None
       THEN /\ fault = "none" /\ mixerOK
            /\ last' = Resp("engine", 400, "Missing 'engine' parameter")
            /\ Unchanged
       ELSE IF engine \notin ENGINE_CHOICES
       THEN /\ fault = "none" /\ mixerOK
            /\ last' = Resp("engine", 400, "Invalid engine")
            /\ Unchanged
       ELSE LET f == [Self EXCEPT !.config.engine = engine]
                r == _initialize_engines(f, environ, mixerOK, fault)
            IN  /\ InitInputOK(f, environ, mixerOK, fault)
                /\ Becomes(r.f)
                /\ last' = [Resp("engine", IF r.raised THEN 500 ELSE 200,
                                 IF r.raised THEN "Failed to switch" ELSE "success")
                              EXCEPT !.call = "_initialize_engines", !.engine = engine,
                                     !.raised = r.raised, !.trace = r.trace,
                                     !.mixerOK = mixerOK, !.mixer = r.mixer]
                /\ UNCHANGED <<tts, environ, voice_cache, threads, music>>

\* GET /info
InfoReq(listing, writeOK) ==
    /\ tts # "unset"
    /\ IF tts = "None"
       THEN /\ NoListing(listing, writeOK)
            /\ NotInitialized("info")
       ELSE LET g == get_available_voices(Self, voice_cache, listing, writeOK)
            IN  /\ ListingInputOK(Self, voice_cache, listing, writeOK)
                /\ last' = [Resp("info", 200, "info") EXCEPT
                               !.call = "get_engine_info", !.info = get_engine_info(Self),
                               !.voices = g.voices, !.called = g.called]
                /\ voice_cache' = g.cache
                /\ UNCHANGED <<tts, config, environ, hume_client, pyttsx3_engine,
                               threads, music>>

\* get_engine_info initializing the engines before it reports
EngineInfo_refreshes ==
    /\ tts = "TextToSpeech"
    /\ LET r == _initialize_engines(Self, environ, TRUE, "none")
       IN  /\ Becomes(r.f)
           /\ last' = [Blank EXCEPT !.op = "get_engine_info", !.call = "get_engine_info",
                                    !.info = get_engine_info(r.f)]
    /\ UNCHANGED <<tts, environ, voice_cache, threads, music>>

\* a caller of the class using get_engine_info
EngineInfo ==
    /\ tts = "TextToSpeech"
    /\ last' = [Blank EXCEPT !.op = "get_engine_info", !.call = "get_engine_info",
                             !.info = get_engine_info(Self)]
    /\ Unchanged

\* a caller of the class using set_voice_properties with all four parameters
SetVoiceProperties(rate, volume, voice_id, voice_description, fault) ==
    /\ tts = "TextToSpeech"
    /\ fault \in SetFaultsFor(Self, rate, volume, voice_id)
    /\ AfterSet("set_voice_properties",
                set_voice_properties(Self, rate, volume, voice_id, voice_description, fault),
                Args(rate, volume, voice_id, voice_description), "False")
    /\ UNCHANGED <<tts, environ, voice_cache, threads, music>>

\* a caller of the class using get_voice_id_by_name
ResolveName(voice_name, listing, writeOK) ==
    /\ tts = "TextToSpeech"
    /\ ListingInputOK(Self, voice_cache, listing, writeOK)
    /\ LET r == get_voice_id_by_name(Self, voice_cache, listing, writeOK, voice_name)
       IN  /\ last' = [Blank EXCEPT !.op = "get_voice_id_by_name",
                                    !.call = "get_voice_id_by_name",
                                    !.query = voice_name, !.id = r.id,
                                    !.voices = r.voices, !.called = r.called,
                                    !.listRaises = listing.raises, !.writeOK = writeOK,
                                    !.cacheKind = voice_cache.kind]
           /\ voice_cache' = r.cache
    /\ UNCHANGED <<tts, config, environ, hume_client, pyttsx3_engine, threads, music>>

\* a caller of the class using get_voice_name_choices
NameChoices(listing, writeOK) ==
    /\ tts = "TextToSpeech"
    /\ ListingInputOK(Self, voice_cache, listing, writeOK)
    /\ LET r == get_voice_name_choices(Self, voice_cache, listing, writeOK)
       IN  /\ last' = [Blank EXCEPT !.op = "get_voice_name_choices",
                                    !.call = "get_voice_name_choices",
                                    !.choices = r.choices,
                                    !.voices = r.voices, !.called = r.called,
                                    !.listRaises = listing.raises, !.writeOK = writeOK,
                                    !.cacheKind = voice_cache.kind]
           /\ voice_cache' = r.cache
    /\ UNCHANGED <<tts, config, environ, hume_client, pyttsx3_engine, threads, music>>

\* the text of a /speak request: no text field, an empty text, a text
TextArgs == {None, "", "hello"}
\* the largest number of generations a provider response holds
MaxGenerations == 2
SpeakFaults == {"none", "provider", "decode", "playback", "say"}
SetFaults == {"none", "rate", "volume", "voice"}

----------------------------------------------------------------------------
(* The service: start-up, then any sequence of requests.  The requests    *)
(* that set voice properties carry one value each here; SpecProps below   *)
(* explores them over the argument sets.                                  *)

Next ==
    \/ \E mixerOK \in BOOLEAN, fault \in Faults, listing \in Listings, writeOK \in BOOLEAN :
          Construct(mixerOK, fault, listing, writeOK)
    \/ \E text \in TextArgs, generations \in 0..MaxGenerations, fault \in SpeakFaults :
          SpeakReq(text, generations, fault)
    \/ \E listing \in Listings, writeOK \in BOOLEAN : StatusReq(listing, writeOK)
    \/ \E listing \in Listings, writeOK \in BOOLEAN : VoicesReq(listing, writeOK)
    \/ \E hasData \in BOOLEAN, rate \in RateArgs, fault \in SetFaults :
          ConfigReq(hasData, rate, NoneNum, NoneSeq, fault)
    \/ \E voice_name \in VoiceNameArgs, listing1 \in Listings, listing2 \in Listings,
          writeOK \in BOOLEAN, fault \in SetFaults :
          VoiceReq(voice_name, listing1, listing2, writeOK, fault)
    \/ \E speed \in SpeedArgs, fault \in SetFaults : SpeedReq(speed, fault)
    \/ \E emotion \in EMOTION_CHOICES \cup {None, "angry"} : EmotionReq(emotion, None)
    \/ \E engine \in ENGINE_CHOICES \cup {None, "espeak"}, mixerOK \in BOOLEAN, fault \in Faults :
          EngineReq(engine, mixerOK, fault)
    \/ \E listing \in Listings, writeOK \in BOOLEAN : InfoReq(listing, writeOK)
    \/ EngineInfo

Spec == Init /\ [][Next]_vars

(* set_voice_properties over its argument sets, with the start-up and the *)
(* engine switches that bring the facade into each of its states.  The    *)
(* handlers that call it with one argument each are explored in Spec.     *)

NextProps ==
    \/ \E mixerOK \in BOOLEAN, fault \in Faults :
          Construct(mixerOK, fault, [raises |-> TRUE, voices |-> <<>>], TRUE)
    \/ \E engine \in ENGINE_CHOICES, mixerOK \in BOOLEAN, fault \in Faults :
          EngineReq(engine, mixerOK, fault)
    \/ \E rate \in RateArgs, volume \in VolumeArgs, voice_id \in VoiceIdArgs,
          voice_description \in DescriptionArgs, fault \in SetFaults :
          SetVoiceProperties(rate, volume, voice_id, voice_description, fault)

SpecProps == Init /\ [][NextProps]_vars

(* The voice directory: a constructed facade, on either engine, beside a  *)
(* cache file of any content, asked for its voices, for the id of a name  *)
(* and for the name choices.                                              *)

\* the largest number of voices in a cache file's list
MaxVoices == 2

s_Ito == <<"I", "t", "o">>
s_ITO == <<"I", "T", "O">>
s_Kito == <<"K", "i", "t", "o">>
\* display names of the voices a cache file may list
NamePool == {s_Ito, s_ITO, s_Kito, s_Ito \o HumeSuffix}
\* ids of the voices of a listed cache, by position
VoiceIds == <<<<"v", "1">>, <<"v", "2">>, <<"v", "3">>, <<"v", "4">>>>
VoiceLists ==
    UNION {{[i \in 1..n |-> [id |-> VoiceIds[i], name |-> names[i],
                             provider |-> "hume", tags |-> EmptyTags]] :
              names \in [1..n -> NamePool]} : n \in 0..MaxVoices}
CacheFiles == {NoCache, MalformedCache, OtherCache} \cup {CacheOf(l) : l \in VoiceLists}

\* the names asked for: the pooled names, a lower-case one, a fragment, a
\* name no voice has
QueryArgs == NamePool \cup {<<"i", "t", "o">>, <<"i", "t">>, <<"z", "e", "d">>}

\* the facade TextToSpeech() builds from configuration c when nothing fails
Constructed(c, env) == _initialize_engines(Facade(c, FALSE, NoEngine), env, TRUE, "none").f

InitVoices ==
    /\ tts = "TextToSpeech"
    /\ environ = "key"
    /\ \E c \in LoadedConfigs(None) :
          /\ c.engine \in ENGINE_CHOICES
          /\ config = Constructed(c, "key").config
          /\ hume_client = Constructed(c, "key").hume_client
          /\ pyttsx3_engine = Constructed(c, "key").pyttsx3_engine
    /\ voice_cache \in CacheFiles
    /\ last = Blank
    /\ threads = NoCalls
    /\ music = Silent

NextVoices ==
    \/ \E listing \in Listings, writeOK \in BOOLEAN : VoicesReq(listing, writeOK)
    \/ \E voice_name \in QueryArgs, listing \in Listings, writeOK \in BOOLEAN :
          ResolveName(voice_name, listing, writeOK)
    \/ \E listing \in Listings, writeOK \in BOOLEAN : NameChoices(listing, writeOK)

SpecVoices == InitVoices /\ [][NextVoices]_vars

(* The configuration as the cloud adapter reads it: a constructed facade  *)
(* whose configuration file names any audio format, set_voice_properties  *)
(* with a voice and a description, and speak.                             *)

\* the audio formats a configuration file may name
ConfigFormats == {"mp3", "wav", "WAV", "Wav", "ogg"}
\* the descriptions a caller may pass: none, an empty one, a text
DescriptionsRead == DescriptionArgs \cup {""}

InitRead ==
    /\ tts = "TextToSpeech"
    /\ environ = "key"
    /\ \E c \in LoadedConfigs(None), fmt \in ConfigFormats :
          /\ c.engine \in ENGINE_CHOICES
          /\ config = Constructed([c EXCEPT !.format = fmt], "key").config
          /\ hume_client = Constructed([c EXCEPT !.format = fmt], "key").hume_client
          /\ pyttsx3_engine = Constructed([c EXCEPT !.format = fmt], "key").pyttsx3_engine
    /\ voice_cache = NoCache
    /\ last = Blank
    /\ threads = NoCalls
    /\ music = Silent

NextRead ==
    \/ \E voice_id \in VoiceIdArgs, voice_description \in DescriptionsRead :
          SetVoiceProperties(NoneNum, NoneNum, voice_id, voice_description, "none")
    \/ \E text \in TextArgs, generations \in 0..MaxGenerations, fault \in SpeakFaults :
          SpeakReq(text, generations, fault)

SpecRead == InitRead /\ [][NextRead]_vars

----------------------------------------------------------------------------
(* Requests served step by step.  The server handles each request in a    *)
(* thread of its own and the facade has no lock, so the handler of a      *)
(* POST /speak and the handler of a POST /engine advance in any order,    *)
(* one read or write of the shared facade at a time.  The audio device    *)
(* plays on its own and finishes when it finishes.                        *)

speaker == threads.speaker
switcher == threads.switcher
Speaker(s) == threads' = [threads EXCEPT !.speaker = s]
Switcher(w) == threads' = [threads EXCEPT !.switcher = w]
Facade_unchanged == UNCHANGED <<tts, config, environ, hume_client, pyttsx3_engine, voice_cache>>

\* the end of a call in the speaker: what it returns and where it was caught
Returns(s, result, raisedIn) ==
    [s EXCEPT !.pc = "return", !.result = result, !.raisedIn = raisedIn]

\* Speak.post with a text, entering speak: the engine name is read
SpeakPost(text) ==
    /\ tts = "TextToSpeech"
    /\ speaker.pc = "idle"
    /\ Speaker([NoSpeak EXCEPT !.pc = "speak", !.text = text,
                               !.engine_type = config.engine,
                               !.during = (switcher.pc # "idle")])
    /\ Facade_unchanged
    /\ UNCHANGED <<last, music>>

\* speak: the handle that goes with the name read is tested
SpeakDispatch ==
    /\ speaker.pc = "speak"
    /\ Speaker(IF speaker.engine_type = "hume" /\ hume_client
               THEN [speaker EXCEPT !.pc = "_speak_with_hume", !.dispatch = "hume"]
               ELSE IF speaker.engine_type = "pyttsx3" /\ pyttsx3_engine.present
               THEN [speaker EXCEPT !.pc = "_speak_with_pyttsx3", !.dispatch = "pyttsx3"]
               ELSE [Returns(speaker, FALSE, "none") EXCEPT !.dispatch = "none"])
    /\ Facade_unchanged
    /\ UNCHANGED <<last, music>>

\* _speak_with_pyttsx3: say and runAndWait
SpeakLocal(fault) ==
    /\ speaker.pc = "_speak_with_pyttsx3"
    /\ LET r == _speak_with_pyttsx3(Self, speaker.text, fault)
       IN  Speaker([Returns(speaker, r.result, r.raisedIn) EXCEPT !.started = r.played])
    /\ Facade_unchanged
    /\ UNCHANGED <<last, music>>

\* _speak_with_hume up to the call of _play_audio_bytes: the utterance is
\* built from the configuration, the provider answers, the first
\* generation is decoded
SpeakSynthesize(generations, fault) ==
    /\ speaker.pc = "_speak_with_hume"
    /\ fault \in {"none", "provider", "decode"}
    /\ fault = "decode" => generations > 0
    /\ LET r == _speak_with_hume(Self, speaker.text, generations, fault)
           s == [speaker EXCEPT !.utterance = r.utterance, !.generations = generations]
       IN  Speaker(IF r.played
                   THEN [s EXCEPT !.pc = "load", !.audio = r.audio]
                   ELSE Returns(s, r.result, r.raisedIn))
    /\ Facade_unchanged
    /\ UNCHANGED <<last, music>>

\* _play_audio_bytes: pygame.mixer.music.load(audio_buffer); an exception
\* is raised again and caught in _speak_with_hume
PlayLoad(raises) ==
    /\ speaker.pc = "load"
    /\ IF raises
       THEN /\ Speaker(Returns(speaker, FALSE, "playback"))
            /\ UNCHANGED music
       ELSE /\ Speaker([speaker EXCEPT !.pc = "play"])
            /\ music' = [loaded |-> speaker.audio, busy |-> FALSE]
    /\ Facade_unchanged
    /\ UNCHANGED last

\* _play_audio_bytes: pygame.mixer.music.play()
PlayStart(raises) ==
    /\ speaker.pc = "play"
    /\ IF raises
       THEN /\ Speaker(Returns(speaker, FALSE, "playback"))
            /\ UNCHANGED music
       ELSE /\ Speaker([speaker EXCEPT !.pc = "get_busy", !.started = TRUE])
            /\ music' = [music EXCEPT !.busy = TRUE]
    /\ Facade_unchanged
    /\ UNCHANGED last

\* the polling loop left after one turn, whatever get_busy() answered
PlayPoll_once ==
    /\ speaker.pc = "get_busy"
    /\ Speaker(Returns(speaker, TRUE, "none"))
    /\ Facade_unchanged
    /\ UNCHANGED <<last, music>>

\* _play_audio_bytes: one turn of the loop: get_busy(), and either a tick of
\* the clock or the end of the loop, after which _speak_with_hume returns
\* True
PlayPoll ==
    /\ speaker.pc = "get_busy"
    /\ Speaker(IF music.busy
               THEN [speaker EXCEPT !.waited = TRUE]
               ELSE Returns(speaker, TRUE, "none"))
    /\ Facade_unchanged
    /\ UNCHANGED <<last, music>>

\* the device reaches the end of the buffer it plays
PlaybackEnds ==
    /\ music.busy
    /\ music' = [music EXCEPT !.busy = FALSE]
    /\ Facade_unchanged
    /\ UNCHANGED <<last, threads>>

\* Speak.post answering with what speak returned
SpeakReturn ==
    /\ speaker.pc = "return"
    /\ last' = [Resp("speak", IF speaker.result THEN 200 ELSE 500,
                     IF speaker.result THEN "success" ELSE "Failed to speak text")
                  EXCEPT !.call = "speak", !.result = speaker.result,
                         !.raisedIn = speaker.raisedIn, !.dispatch = speaker.dispatch,
                         !.utterance = speaker.utterance, !.played = speaker.started,
                         !.audio = speaker.audio, !.text = speaker.text,
                         !.generations = speaker.generations]
    /\ Speaker([speaker EXCEPT !.pc = "idle"])
    /\ Facade_unchanged
    /\ UNCHANGED music

\* Engine.post with an engine of ENGINE_CHOICES: the name is written into
\* the configuration
SwitchWrite(engine) ==
    /\ tts = "TextToSpeech"
    /\ switcher.pc = "idle"
    /\ engine \in ENGINE_CHOICES
    /\ config' = [config EXCEPT !.engine = engine]
    /\ threads' = [threads EXCEPT
          !.switcher = [NoSwitch EXCEPT !.pc = "_initialize_engines", !.engine = engine,
                                        !.healthy = get_engine_info(Self).available],
          !.speaker.during = FALSE]
    /\ UNCHANGED <<tts, environ, hume_client, pyttsx3_engine, voice_cache, last, music>>

\* _initialize_engines: the name is read back and selects the adapter
SwitchSelect ==
    /\ switcher.pc = "_initialize_engines"
    /\ Switcher([switcher EXCEPT !.pc = IF config.engine = "hume" THEN "_initialize_hume"
                                        ELSE "_initialize_pyttsx3"])
    /\ Facade_unchanged
    /\ UNCHANGED <<last, music>>

\* _initialize_hume: the credential is looked up and the client is built
\* and stored; without a credential ValueError is raised
SwitchClient ==
    /\ switcher.pc = "_initialize_hume"
    /\ LET api_key == IF Truthy(environ) THEN environ ELSE config.api_key
       IN  IF Truthy(api_key)
           THEN /\ hume_client' = TRUE
                /\ Switcher([switcher EXCEPT !.pc = "mixer"])
           ELSE /\ UNCHANGED hume_client
                /\ Switcher([switcher EXCEPT !.pc = "except"])
    /\ UNCHANGED <<tts, config, environ, pyttsx3_engine, voice_cache, last, music>>

\* _initialize_hume: pygame.mixer.init()
SwitchMixer(mixerOK) ==
    /\ switcher.pc = "mixer"
    /\ Switcher(IF mixerOK THEN [switcher EXCEPT !.pc = "respond", !.mixer = "ok"]
                ELSE [switcher EXCEPT !.pc = "except", !.mixer = "failed"])
    /\ Facade_unchanged
    /\ UNCHANGED <<last, music>>

\* _initialize_hume, except branch: 'pyttsx3' is written into the
\* configuration
SwitchFallback ==
    /\ switcher.pc = "except"
    /\ config' = [config EXCEPT !.engine = "pyttsx3"]
    /\ Switcher([switcher EXCEPT !.pc = "_initialize_pyttsx3"])
    /\ UNCHANGED <<tts, environ, hume_client, pyttsx3_engine, voice_cache, last, music>>

\* _initialize_pyttsx3: pyttsx3.init() and the assignment of the handle
SwitchLocal(raises) ==
    /\ switcher.pc = "_initialize_pyttsx3"
    /\ IF raises
       THEN /\ Switcher([switcher EXCEPT !.pc = "respond", !.raised = TRUE])
            /\ UNCHANGED pyttsx3_engine
       ELSE /\ pyttsx3_engine' = IF pyttsx3_engine.present THEN pyttsx3_engine
                                 ELSE FreshEngine
            /\ Switcher([switcher EXCEPT !.pc = "_configure_pyttsx3_voice"])
    /\ UNCHANGED <<tts, config, environ, hume_client, voice_cache, last, music>>

\* _initialize_pyttsx3: _configure_pyttsx3_voice on the handle
SwitchConfigure(fault) ==
    /\ switcher.pc = "_configure_pyttsx3_voice"
    /\ fault \in {"none", "rate", "volume", "voice"}
    /\ LET r == _configure_pyttsx3_voice(Self, fault)
       IN  /\ pyttsx3_engine' = r.f.pyttsx3_engine
           /\ Switcher([switcher EXCEPT !.pc = "respond", !.raised = r.raised])
    /\ UNCHANGED <<tts, config, environ, hume_client, voice_cache, last, music>>

\* Engine.post answering: 200, or 500 when _initialize_engines raised
SwitchRespond ==
    /\ switcher.pc = "respond"
    /\ last' = [Resp("engine", IF switcher.raised THEN 500 ELSE 200,
                     IF switcher.raised THEN "Failed to switch" ELSE "success")
                  EXCEPT !.call = "_initialize_engines", !.engine = switcher.engine,
                         !.raised = switcher.raised, !.mixer = switcher.mixer]
    /\ Switcher([switcher EXCEPT !.pc = "idle"])
    /\ Facade_unchanged
    /\ UNCHANGED music

(* One speaker at a time on a constructed facade: the call of speak from  *)
(* its first read to its return, with the device playing beside it.       *)

\* the texts a step-wise speak is given
TextsSpoken == {"", "hello"}

InitPlay ==
    /\ tts = "TextToSpeech"
    /\ environ = "key"
    /\ \E c \in LoadedConfigs(None) :
          /\ c.engine \in ENGINE_CHOICES
          /\ config = Constructed(c, "key").config
          /\ hume_client = Constructed(c, "key").hume_client
          /\ pyttsx3_engine = Constructed(c, "key").pyttsx3_engine
    /\ voice_cache = NoCache
    /\ last = Blank
    /\ threads = NoCalls
    /\ music = Silent

NextPlay ==
    \/ \E text \in TextsSpoken : SpeakPost(text)
    \/ SpeakDispatch
    \/ \E fault \in {"none", "say"} : SpeakLocal(fault)
    \/ \E generations \in 0..MaxGenerations, fault \in SpeakFaults :
          SpeakSynthesize(generations, fault)
    \/ \E raises \in BOOLEAN : PlayLoad(raises)
    \/ \E raises \in BOOLEAN : PlayStart(raises)
    \/ PlayPoll
    \/ PlaybackEnds
    \/ SpeakReturn

SpecPlay == InitPlay /\ [][NextPlay]_vars

\* the thread in the polling loop is scheduled again after each tick of the
\* clock, so a turn of the loop that can be taken is taken
SpecPlayFair == SpecPlay /\ WF_vars(PlayPoll)

(* A speaker and a switcher side by side on a constructed facade.         *)

InitSwitch ==
    /\ tts = "TextToSpeech"
    /\ environ \in {None, "key"}
    /\ \E c \in LoadedConfigs(None) :
          /\ c.engine \in ENGINE_CHOICES
          /\ config = Constructed(c, environ).config
          /\ hume_client = Constructed(c, environ).hume_client
          /\ pyttsx3_engine = Constructed(c, environ).pyttsx3_engine
    /\ voice_cache = NoCache
    /\ last = Blank
    /\ threads = NoCalls
    /\ music = Silent

NextSwitch ==
    \/ SpeakPost("hello")
    \/ SpeakDispatch
    \/ \E fault \in {"none", "say"} : SpeakLocal(fault)
    \/ \E generations \in {0, MaxGenerations}, fault \in {"none", "provider"} :
          SpeakSynthesize(generations, fault)
    \/ PlayLoad(FALSE)
    \/ PlayStart(FALSE)
    \/ PlayPoll
    \/ PlaybackEnds
    \/ SpeakReturn
    \/ \E engine \in ENGINE_CHOICES : SwitchWrite(engine)
    \/ SwitchSelect
    \/ SwitchClient
    \/ \E mixerOK \in BOOLEAN : SwitchMixer(mixerOK)
    \/ SwitchFallback
    \/ \E raises \in BOOLEAN : SwitchLocal(raises)
    \/ \E fault \in {"none", "rate", "volume", "voice"} : SwitchConfigure(fault)
    \/ SwitchRespond

SpecSwitch == InitSwitch /\ [][NextSwitch]_vars

----------------------------------------------------------------------------
(* Properties *)

Info == get_engine_info(Self)
NoCredential == ~Truthy(environ) /\ ~Truthy(config.api_key)
Initialized == last.call = "_initialize_engines"
\* the last step was a call of set_voice_properties
SetCall == last.call = "set_voice_properties"

\* C1: start-up with 'hume' configured and no credential in the environment
\* or the configuration: the cloud initialization fails before the mixer is
\* reached, exactly the local engine is initialized next, and the facade
\* ends with engine name 'pyttsx3' and a live local handle; when the local
\* initialization fails as well the constructor raises and tts is None.
C1_NoCredentialFallsBackToLocal ==
    (last.op = "construct" /\ last.trace # <<>> /\ Head(last.trace) = "hume" /\ NoCredential)
    => /\ last.trace = <<"hume", "pyttsx3">>
       /\ last.mixer = "not reached"
       /\ ~hume_client
       /\ config.engine = "pyttsx3"
       /\ IF last.raised THEN tts = "None"
          ELSE /\ tts = "TextToSpeech"
               /\ Info.engine = "pyttsx3"
               /\ Info.available
               /\ pyttsx3_engine.present

C1_Witness ==
    /\ last.op = "construct"
    /\ last.trace = <<"hume", "pyttsx3">>
    /\ NoCredential
    /\ tts = "TextToSpeech"
    /\ config.engine = "pyttsx3"
    /\ pyttsx3_engine.present

\* C2: an engine-switch request that reports success leaves the facade
\* running on the engine that was requested.
C2_SwitchSuccessMeansRequestedEngine ==
    (last.op = "engine" /\ Initialized /\ last.code = 200) => config.engine = last.engine

\* C3: an engine name in the configuration that is neither 'hume' nor
\* 'pyttsx3' is treated as 'hume': start-up initializes the cloud adapter
\* and speak is dispatched to it.
C3_UnknownEngineTreatedAsCloud ==
    (tts # "unset" /\ config.engine \notin ENGINE_CHOICES)
    => /\ last.op = "construct" => (last.trace # <<>> /\ Head(last.trace) = "hume")
       /\ last.call = "speak" => last.dispatch = "hume"

\* C4: one initialization attempts the cloud adapter at most once and the
\* local adapter at most once, the local one after the cloud one exactly
\* when the cloud one failed; nothing is attempted after the local adapter,
\* and the initialization raises exactly when the local attempt failed,
\* which start-up turns into tts = None and /engine into a 500.
C4_FallbackOnceCloudToLocalOnly ==
    Initialized
    => /\ last.trace \in {<<"hume">>, <<"hume", "pyttsx3">>, <<"pyttsx3">>}
       /\ (Head(last.trace) = "hume" /\ last.mixer # "ok") <=> last.trace = <<"hume", "pyttsx3">>
       /\ last.raised => last.trace[Len(last.trace)] = "pyttsx3"
       /\ last.op = "construct" => (last.raised <=> tts = "None")
       /\ last.op = "engine" => (last.raised <=> last.code = 500)

C4_Witness ==
    /\ last.op = "engine"
    /\ last.trace = <<"hume", "pyttsx3">>
    /\ last.raised
    /\ last.code = 500

\* C5: once tts is None, every request leaves it None, answers 'TTS not
\* initialized' (/status: 'error' and no voices), initializes nothing and
\* changes neither the facade's attributes nor the voice cache.
C5_FailedIsAbsorbing ==
    [][tts = "None"
       => /\ tts' = "None"
          /\ IF last'.op = "status"
             THEN last'.body = "error" /\ last'.voices = <<>> /\ last'.code = 200
             ELSE last'.body = "TTS not initialized" /\ last'.code = 500
          /\ last'.trace = <<>>
          /\ last'.call = "none"
          /\ UNCHANGED <<config, environ, hume_client, pyttsx3_engine, voice_cache>>]_vars

C5_Witness ==
    /\ tts = "None"
    /\ last.op = "engine"
    /\ last.body = "TTS not initialized"

\* the facade is ready on the local engine
ReadyLocal == tts = "TextToSpeech" /\ config.engine = "pyttsx3" /\ pyttsx3_engine.present
InfoCloud == Info.engine = "hume" /\ Info.available

C8_CloudSetIgnoresRateAndVolume ==
    [][(config.engine = "hume" /\ SetCall')
       => /\ last'.result
          /\ config'.rate = config.rate
          /\ config'.volume = config.volume
          /\ config'.voice_id = IF last'.args.voice_id # NoneSeq THEN last'.args.voice_id
                                ELSE config.voice_id
          /\ config'.voice_description =
                IF last'.args.voice_description # None THEN last'.args.voice_description
                ELSE config.voice_description
          /\ config'.engine = config.engine /\ config'.speed = config.speed
          /\ config'.format = config.format /\ config'.api_key = config.api_key
          /\ UNCHANGED <<hume_client, pyttsx3_engine>>]_vars

C8_Witness ==
    /\ SetCall
    /\ config.engine = "hume"
    /\ hume_client
    /\ last.result
    /\ last.args.rate # NoneNum /\ last.args.rate # config.rate
    /\ last.args.volume # NoneNum /\ last.args.volume # config.volume
    /\ last.args.voice_id # NoneSeq /\ last.args.voice_id = config.voice_id
    /\ last.args.voice_description # None
    /\ last.args.voice_description = config.voice_description

C10_Original ==
    SetCall => (last.result <=> Info.available)

\* C10: set_voice_properties returns True exactly when 'hume' is
\* configured, or 'pyttsx3' is configured, its handle is present and no
\* property setter raised; so it returns False when the local handle is
\* absent, when a setter raises, and when the configured name is unknown.
C10_SetResult ==
    SetCall
    => (last.result <=> \/ config.engine = "hume"
                        \/ /\ config.engine = "pyttsx3"
                           /\ pyttsx3_engine.present
                           /\ last.raisedIn = "none")

C10_Witness ==
    /\ SetCall
    /\ config.engine = "pyttsx3"
    /\ ~pyttsx3_engine.present
    /\ ~last.result

\* the last step was a call of speak, dispatched to the cloud adapter
SpeakCall == last.call = "speak"
CloudSpeak == SpeakCall /\ last.dispatch = "hume"

\* C11: a cloud speak whose provider response holds zero generations returns
\* False without invoking playback; playback is invoked only on a response
\* with at least one generation, and then with the decoded audio of the
\* first generation.
C11_NoGenerationNoPlayback ==
    CloudSpeak
    => /\ (last.raisedIn # "provider" /\ last.generations = 0)
          => (~last.result /\ ~last.played /\ last.audio = NoAudio)
       /\ last.played
          => /\ last.raisedIn \notin {"provider", "decode"}
             /\ last.generations >= 1
             /\ last.audio = B64Decode(Generations(last.generations)[1].audio)

C11_Witness ==
    /\ CloudSpeak
    /\ last.generations = 0
    /\ last.raisedIn = "none"
    /\ ~last.result
    /\ ~last.played

\* a cloud speak that played the first of several generations
C11_WitnessFirstOfSeveral ==
    /\ CloudSpeak
    /\ last.generations >= 2
    /\ last.played
    /\ last.result

\* C12: speak hands its caller a boolean and never an exception: it returns
\* False when the provider call, the decode, the playback or the local
\* engine raised, False when the configured engine has no handle, and True
\* only when the output stage was invoked and nothing raised (for the cloud
\* adapter, on a response with a generation).
C12_SpeakNeverRaises ==
    SpeakCall
    => /\ ~last.raised
       /\ last.raisedIn # "none" => ~last.result
       /\ ~Info.available => (~last.result /\ last.dispatch = "none")
       /\ last.result
          => /\ last.played
             /\ last.raisedIn = "none"
             /\ last.dispatch \in {"hume", "pyttsx3"}
             /\ last.dispatch = "hume" => last.generations >= 1
       /\ last.code = IF last.result THEN 200 ELSE 500

C12_Witness ==
    /\ SpeakCall
    /\ last.dispatch = "hume"
    /\ last.raisedIn = "playback"
    /\ last.played
    /\ ~last.result
    /\ ~last.raised

\* the last step was a call of get_voice_id_by_name / get_voice_name_choices
ResolveCall == last.op = "get_voice_id_by_name"
ChoicesCall == last.op = "get_voice_name_choices"
\* the positions of the fetched list whose name is the one asked for
Named == {i \in 1..Len(last.voices) : last.voices[i].name = last.query}

\* C13 as stated: asked for the display name of any voice of the list it
\* fetched, get_voice_id_by_name returns that voice's id, also when several
\* voices share the name or differ in case only.
C13_Original ==
    ResolveCall => \A i \in Named : last.id = last.voices[i].id

\* C13: asked for the display name of a voice of the list it fetched,
\* get_voice_id_by_name returns the id of the first voice of the list whose
\* name equals it up to case; that is the voice's own id whenever no
\* earlier voice has the same name up to case.
C13_ResolvesFirstOfName ==
    ResolveCall
    => \A i \in Named :
          LET same == {j \in 1..Len(last.voices) :
                          Lower(last.voices[j].name) = Lower(last.voices[i].name)}
          IN  /\ \E j \in same : /\ \A k \in same : j <= k
                                 /\ last.id = last.voices[j].id
              /\ (\A j \in same : i <= j) => last.id = last.voices[i].id

C13_Witness ==
    /\ ResolveCall
    /\ Len(last.voices) >= 2
    /\ 2 \in Named
    /\ Lower(last.voices[1].name) # Lower(last.voices[2].name)
    /\ Contains(Lower(last.query), Lower(last.voices[1].name))
    /\ last.id = last.voices[2].id
    /\ last.id # last.voices[1].id

\* the positions of the fetched list matching the query in tier 1 (the
\* name), tier 2 (the name before " -") and tier 3 (containment), all in
\* lower case
Tier(k) ==
    LET q == Lower(last.query)
    IN  {i \in 1..Len(last.voices) :
            CASE k = 1 -> Lower(last.voices[i].name) = q
              [] k = 2 -> Lower(SplitDash(last.voices[i].name)) = q
              [] k = 3 -> Contains(q, Lower(last.voices[i].name))}

\* C14: get_voice_id_by_name returns the id of the first voice, in listing
\* order, of the lowest tier that has a match, where tier 1 is equality
\* with the display name, tier 2 equality with the name before its " -"
\* decoration and tier 3 containment of the query in the display name, all
\* ignoring case; it returns None when no tier has a match.
C14_ThreeTiersInOrder ==
    ResolveCall
    => IF Tier(1) \cup Tier(2) \cup Tier(3) = {} THEN last.id = NoneSeq
       ELSE \E k \in 1..3 :
               /\ Tier(k) # {}
               /\ \A l \in 1..(k - 1) : Tier(l) = {}
               /\ \E i \in Tier(k) : /\ \A j \in Tier(k) : i <= j
                                     /\ last.id = last.voices[i].id

\* a voice matching in tier 1 resolved although an earlier one matches in
\* tier 2
C14_Witness ==
    /\ ResolveCall
    /\ Len(last.voices) >= 2
    /\ 1 \in Tier(2) /\ 1 \notin Tier(1)
    /\ 2 \in Tier(1)
    /\ last.id = last.voices[2].id
    /\ last.id # last.voices[1].id

\* base is name without its decoration: name up to its first " -"
IsStripped(base, name) ==
    /\ Len(base) <= Len(name)
    /\ SubSeq(name, 1, Len(base)) = base
    /\ ~Contains(<<" ", "-">>, base)
    /\ \/ Len(base) = Len(name)
       \/ /\ Len(base) + 2 <= Len(name)
          /\ SubSeq(name, Len(base) + 1, Len(base) + 2) = <<" ", "-">>

\* C15: get_voice_name_choices returns one entry per voice of the list it
\* fetched, in the same order, the i-th entry being the i-th display name
\* without its decoration; equal base names are all kept.
C15_OneChoicePerVoice ==
    ChoicesCall
    => /\ Len(last.choices) = Len(last.voices)
       /\ \A i \in 1..Len(last.voices) : IsStripped(last.choices[i], last.voices[i].name)

C15_Witness ==
    /\ ChoicesCall
    /\ Len(last.voices) >= 2
    /\ last.voices[1].name # last.voices[2].name
    /\ last.choices[1] = last.choices[2]
    /\ last.choices[1] # last.voices[1].name

\* the cloud adapter is the one get_available_voices lists
CloudActive == config.engine = "hume" /\ hume_client
\* the last step fetched the voice list once
ListCall == last.op \in {"voices", "get_voice_id_by_name", "get_voice_name_choices"}

\* C16: with the cloud engine active, a call that finds a cache file
\* holding a mapping with a 'voices' entry returns that entry as it is,
\* does not ask the provider and leaves the file alone, so every later call
\* does the same; a call that finds no file, or a file that is not such a
\* mapping, returns a list after asking the provider.
C16_CacheServedVerbatim ==
    [][(CloudActive /\ ListCall')
       => /\ voice_cache.kind = "voices"
             => /\ last'.voices = voice_cache.voices
                /\ ~last'.called
                /\ voice_cache' = voice_cache
          /\ voice_cache.kind # "voices" => last'.called]_vars

C16_Witness ==
    /\ CloudActive
    /\ ListCall
    /\ last.cacheKind = "voices"
    /\ voice_cache.kind = "voices"
    /\ Len(voice_cache.voices) >= 1
    /\ last.voices = voice_cache.voices
    /\ last.voices # [i \in 1..Len(ProviderVoices) |-> MapVoice(ProviderVoices[i])]
    /\ ~last.called

\* C17: with the cloud engine active and no usable cache, a provider
\* listing that succeeds is returned in full, one mapped record per
\* provider record in the provider's order, whether or not the cache can
\* be written; a successful write replaces the file by the mapping whose
\* 'voices' entry is the returned list, and the next call returns that
\* list whatever the provider does; a failed write leaves the file alone.
C17_ListingReturnedAndCached ==
    [][(CloudActive /\ ListCall' /\ voice_cache.kind # "voices" /\ ~last'.listRaises)
       => /\ last'.called
          /\ Len(last'.voices) = Len(ProviderVoices)
          /\ \A i \in 1..Len(ProviderVoices) :
                /\ last'.voices[i].id = ProviderVoices[i].id
                /\ last'.voices[i].name =
                      (IF ProviderVoices[i].name = NoneSeq THEN ProviderVoices[i].id
                       ELSE ProviderVoices[i].name) \o HumeSuffix
          /\ last'.writeOK
             => /\ voice_cache' = [kind |-> "voices", voices |-> last'.voices]
                /\ \A listing \in Listings, writeOK \in BOOLEAN :
                      get_available_voices(Self, voice_cache', listing, writeOK)
                         = [voices |-> last'.voices, cache |-> voice_cache',
                            called |-> FALSE]
          /\ ~last'.writeOK => voice_cache' = voice_cache]_vars

C17_Witness ==
    /\ CloudActive
    /\ ListCall
    /\ last.cacheKind = "malformed"
    /\ ~last.listRaises
    /\ last.writeOK
    /\ last.called
    /\ voice_cache = CacheOf(last.voices)
    /\ Len(last.voices) = Len(ProviderVoices)

\* C18: with the cloud engine active and no usable cache, a provider
\* listing that raises makes the call return the hardcoded list, which
\* has four voices, and leaves the cache file as it was, so the next call
\* asks the provider again.
C18_FallbackListNotCached ==
    [][(CloudActive /\ ListCall' /\ voice_cache.kind # "voices" /\ last'.listRaises)
       => /\ last'.called
          /\ last'.voices = FallbackVoices
          /\ Len(last'.voices) >= 4
          /\ voice_cache' = voice_cache
          /\ \A listing \in Listings :
                get_available_voices(Self, voice_cache', listing, TRUE).called]_vars

C18_Witness ==
    /\ CloudActive
    /\ ListCall
    /\ last.cacheKind = "absent"
    /\ last.listRaises
    /\ last.called
    /\ last.voices = FallbackVoices
    /\ voice_cache = NoCache

\* C19 as stated: every record of a returned voice list has the four
\* fields id, name, provider and tags, whether the list comes from the
\* provider, is the hardcoded one or lists the local engine's voices.
C19_FourFieldsOnEveryPath ==
    ListCall
    => \A i \in 1..Len(last.voices) :
          DOMAIN last.voices[i] = {"id", "name", "provider", "tags"}

\* C20 as stated: a cloud speak that follows a /speed request which wrote a
\* speed into the configuration submits an utterance carrying that speed.
C20_UtteranceCarriesSpeed ==
    [][(last.op = "speed" /\ last.code = 200 /\ CloudActive /\ CloudSpeak')
       => /\ "speed" \in DOMAIN last'.utterance
          /\ last'.utterance.speed = config.speed]_vars

\* the last step was a call of get_engine_info
InfoCall == last.op = "get_engine_info"

\* C21: get_engine_info changes nothing (configuration, both handles, the
\* cache file), and the record it returns names the configured engine and
\* voice, reports each handle's presence, and has available true exactly
\* when the handle of the configured engine is present ('hume': the
\* client; any other name: the local engine, which is the one initialized
\* for it).
C21_EngineInfoPureRead ==
    [][InfoCall'
       => /\ UNCHANGED <<tts, config, environ, hume_client, pyttsx3_engine, voice_cache>>
          /\ last'.info.engine = config.engine
          /\ last'.info.voice_id = config.voice_id
          /\ last'.info.hume_available <=> hume_client
          /\ last'.info.pyttsx3_available <=> pyttsx3_engine.present
          /\ config.engine = "hume" => (last'.info.available <=> hume_client)
          /\ config.engine # "hume"
             => (last'.info.available <=> pyttsx3_engine.present)]_vars

C21_Witness ==
    /\ InfoCall
    /\ config.engine = "pyttsx3"
    /\ hume_client
    /\ ~pyttsx3_engine.present
    /\ ~last.info.available
    /\ last.info.hume_available
    /\ voice_cache.kind = "voices"

C25_CloudNameHasClient ==
    /\ (tts = "TextToSpeech" /\ config.engine = "hume") => hume_client
    /\ CloudSpeak => hume_client

C25_Witness ==
    /\ tts = "TextToSpeech" /\ config.engine = "hume" /\ hume_client
    /\ pyttsx3_engine.present
    /\ last.op = "engine" /\ last.code = 200 /\ last.engine = "hume"

\* the last step was an engine switch whose initialization raised
SwitchFailed == last.op = "engine" /\ Initialized /\ last.raised

\* C26: after an engine switch that reports failure the configuration
\* names 'pyttsx3', whichever engine was requested and whether or not a
\* cloud client is held; the speak that follows is dispatched to the local
\* handle when there is one and returns False, dispatched to no engine,
\* when there is none.
C26_FailedSwitchLeavesLocal ==
    [][/\ SwitchFailed' => (last'.code = 500 /\ config'.engine = "pyttsx3")
       /\ (SwitchFailed /\ SpeakCall')
          => /\ last'.dispatch # "hume"
             /\ pyttsx3_engine.present => last'.dispatch = "pyttsx3"
             /\ ~pyttsx3_engine.present
                => (last'.dispatch = "none" /\ ~last'.result /\ last'.code = 500)]_vars

C26_Witness ==
    /\ SpeakCall /\ last.dispatch = "none" /\ ~last.result
    /\ hume_client /\ ~pyttsx3_engine.present /\ config.engine = "pyttsx3"

\* the local handle is live and carries the configured rate and volume
Aligned ==
    /\ pyttsx3_engine.present
    /\ pyttsx3_engine.rate = config.rate
    /\ pyttsx3_engine.volume = config.volume
\* the last step initialized the local engine to completion
LocalInitialized ==
    /\ Initialized /\ ~last.raised
    /\ last.trace # <<>> /\ last.trace[Len(last.trace)] = "pyttsx3"

\* C27: once an initialization of the local engine has completed, the
\* handle carries the configured rate and volume, and every later step
\* (set_voice_properties that succeeds or fails, engine switches, another
\* initialization) keeps them equal; the engine's voice need not be the
\* configured voice_id.
C27_RateAndVolumeMirrored ==
    [][/\ (tts' = "TextToSpeech" /\ LocalInitialized') => Aligned'
       /\ (tts = "TextToSpeech" /\ Aligned) => Aligned']_vars

C27_Witness ==
    /\ Aligned /\ config.rate # DefaultRate
    /\ SetCall /\ ~last.result /\ last.raisedIn = "volume"
    /\ pyttsx3_engine.voice # config.voice_id

\* the speaker is in the polling loop of _play_audio_bytes
Polling == speaker.pc = "get_busy"
\* the cloud speak of the speaker has returned True
SpokeCloud == speaker.pc = "return" /\ speaker.dispatch = "hume" /\ speaker.result

\* C23: a cloud speak returns True only from the polling loop, on a turn
\* that finds the device not busy, after play() was called on the decoded
\* first generation; while the device is busy a turn of the loop leaves the
\* call in the loop; and a call in the loop whose device is idle returns.
C23_ReturnsWhenPlaybackEnded ==
    /\ [][(SpokeCloud' /\ ~SpokeCloud)
          => /\ Polling /\ speaker.started /\ ~music.busy
             /\ music.loaded = B64Decode(Generations(speaker.generations)[1].audio)]_vars
    /\ [][(Polling /\ music.busy /\ music'.busy) => Polling']_vars
    /\ (Polling /\ ~music.busy) ~> SpokeCloud

C23_Witness ==
    /\ SpokeCloud /\ speaker.waited /\ speaker.started
    /\ ~music.busy /\ music.loaded = <<"bytes", 1>>
    /\ speaker.generations = MaxGenerations

\* C24: a speak that read the engine name while an engine switch was under
\* way, the switch having begun with the engine in use available and ending
\* in success, was dispatched to an engine and caught no exception outside
\* its adapters.
C24_SpeakDuringSwitchIsServed ==
    (/\ switcher.pc = "respond" /\ ~switcher.raised /\ switcher.healthy
     /\ speaker.during /\ speaker.dispatch # "pending")
    => speaker.dispatch \in {"hume", "pyttsx3"}

====
